---- MODULE Spec2Model ----
(***************************************************************************)
(* Model of the failover orchestrator (dashboard/app/api/failover.py) and  *)
(* of the cluster monitor (dashboard/app/api/monitoring.py) of the Hadoop  *)
(* HA dashboard, together with the probe records they consume              *)
(* (dashboard/app/api/hadoop_client.py).                                   *)
(*                                                                         *)
(* A coroutine is cut at its await points: the status probes, the          *)
(* simulated command execution and the delays; what runs between two       *)
(* awaits is one step.  Python strings are sequences of tokens, so that an *)
(* f-string is a concatenation and "contains" is a question about          *)
(* contiguous subsequences.  Optional strings (None or a str) are records  *)
(* [none, text].  Timestamps, URLs and response times are not modelled.    *)
(***************************************************************************)
EXTENDS Integers, Sequences, FiniteSets, TLC

VARIABLES
    pc,               \* position of the workflow coroutine
    svc,              \* "namenode" or "resourcemanager": which workflow runs
    force,            \* the force argument
    failover_result,  \* the result dictionary being built / returned
    current_active,   \* slot name captured by step 1
    current_standby,  \* slot name captured by step 1
    attempt,          \* loop variable of the verification loop
    nn_status,        \* status read by the latest verification poll
    polls,            \* verdict of each verification poll so far
    events,           \* calls made to collaborators, in order
    escaped,          \* exception that left the workflow, if any
    monitoring,       \* ClusterMonitor.monitoring
    current_metrics,  \* ClusterMonitor.current_metrics
    metrics_history,  \* ClusterMonitor.metrics_history
    logs,             \* ClusterMonitor.logs
    tasks,            \* position of each monitoring-loop task
    appended,         \* number of snapshots appended since the initial state
    last_call,        \* the latest start/stop call and what it found
    last_error,       \* str(e) of what the latest collection raised, if any
    emitted,          \* the entries the latest event check gave to _add_log
    local_metrics     \* the dictionary metrics of a running _collect_metrics

failover_vars == <<pc, svc, force, failover_result, current_active,
                   current_standby, attempt, nn_status, polls, events, escaped>>

monitor_vars == <<monitoring, current_metrics, metrics_history, logs, tasks,
                  appended, last_call, last_error, emitted, local_metrics>>

vars == <<failover_vars, monitor_vars>>

----------------------------------------------------------------------------
(* Python values *)

None == [none |-> TRUE, text |-> <<>>]

Str(t) == [none |-> FALSE, text |-> t]

\* str() of an optional string inside an f-string
Format(v) == IF v.none THEN <<"None">> ELSE v.text

\* b occurs in a as a contiguous run of tokens (Python's  b in a)
Contains(a, b) ==
    \E i \in 0..Len(a) :
        /\ i + Len(b) <= Len(a)
        /\ \A j \in 1..Len(b) : a[i + j] = b[j]

EmptyDict == [k \in {} |-> k]

Services == {"namenode", "resourcemanager"}

\* str(e) of the exceptions a collaborator may raise: a message, or none
ExcMessages == {<<"connection refused">>, <<>>}

----------------------------------------------------------------------------
(* hadoop_client.py: the probe of one service instance *)

\* what an instance answers: an HA state, or nothing at all
HaStates == {"active", "standby", "unknown"}

Answers == HaStates \cup {"no answer"}

\* variant: an instance that cannot be reached keeps its expected role
check_health_AssumesRole(expected_role, answer) ==
    IF answer \in HaStates
    THEN [healthy |-> TRUE,
          ha_state |-> answer,
          is_active |-> (answer = "active"),
          expected_role |-> expected_role,
          role_correct |-> (answer = expected_role)]
    ELSE [healthy |-> FALSE,
          ha_state |-> "unreachable",
          is_active |-> (expected_role = "active"),
          expected_role |-> expected_role,
          role_correct |-> FALSE,
          error |-> Str(<<"transport error">>)]

check_health(expected_role, answer) ==
    IF answer \in HaStates
    THEN [healthy |-> TRUE,
          ha_state |-> answer,
          is_active |-> (answer = "active"),
          expected_role |-> expected_role,
          role_correct |-> (answer = expected_role)]
    ELSE [healthy |-> FALSE,
          ha_state |-> "unreachable",
          is_active |-> FALSE,
          expected_role |-> expected_role,
          role_correct |-> FALSE,
          error |-> Str(<<"transport error">>)]

get_status(a, s) ==
    [active |-> check_health("active", a),
     standby |-> check_health("standby", s),
     ha_enabled |-> TRUE]

Statuses == {get_status(a, s) : a \in Answers, s \in Answers}

\* a number of a JSON document, or null
Num(n) == [null |-> FALSE, n |-> n]

JsonNull == [null |-> TRUE, n |-> 0]

\* the ResourceManager record carries the cluster metrics when it answered
check_resourcemanager_health(expected_role, answer, cluster_metrics) ==
    LET r == check_health(expected_role, answer) IN
    IF answer \in HaStates
    THEN [k \in DOMAIN r \cup {"metrics"} |->
             IF k = "metrics" THEN cluster_metrics ELSE r[k]]
    ELSE r

get_resourcemanager_status(a, s, cluster_metrics) ==
    [active |-> check_resourcemanager_health("active", a, cluster_metrics),
     standby |-> check_resourcemanager_health("standby", s, cluster_metrics),
     ha_enabled |-> TRUE]

ClusterMetrics(total, allocated, pending, running) ==
    [totalMB |-> total,
     allocatedMB |-> allocated,
     appsPending |-> pending,
     appsRunning |-> running]

NodeList(states) == [i \in DOMAIN states |-> [state |-> states[i]]]

JournalNodes(healthy) == [i \in DOMAIN healthy |-> [healthy |-> healthy[i]]]

get_cluster_status(nn, rm, datanodes, nodemanagers, journalnodes, hs, hive) ==
    [namenode |-> nn,
     resourcemanager |-> rm,
     nodes |-> [datanodes |-> datanodes,
                nodemanagers |-> nodemanagers,
                journalnodes |-> journalnodes],
     services |-> [historyserver |-> [healthy |-> hs],
                   hive |-> [healthy |-> hive]]]

\* the cluster as the monitor may find it in a cycle
QuietMetrics == ClusterMetrics(Num(100), Num(50), Num(0), Num(1))

HealthyNodes ==
    [datanodes |-> NodeList(<<"NORMAL", "NORMAL">>),
     nodemanagers |-> NodeList(<<"RUNNING", "RUNNING">>),
     journalnodes |-> JournalNodes(<<TRUE, TRUE, TRUE>>)]

StatusWith(nn, rm) ==
    get_cluster_status(nn, rm, HealthyNodes.datanodes,
                       HealthyNodes.nodemanagers, HealthyNodes.journalnodes,
                       TRUE, TRUE)

ClusterStatuses ==
    {\* everything healthy and in its configured role
     StatusWith(get_status("active", "standby"),
                get_resourcemanager_status("active", "standby", QuietMetrics)),
     \* the NameNodes have switched roles
     StatusWith(get_status("standby", "active"),
                get_resourcemanager_status("active", "standby", QuietMetrics)),
     \* the standby ResourceManager does not answer
     StatusWith(get_status("active", "standby"),
                get_resourcemanager_status("active", "no answer", QuietMetrics)),
     \* memory nearly exhausted and applications queueing
     StatusWith(get_status("active", "standby"),
                get_resourcemanager_status("active", "standby",
                    ClusterMetrics(Num(100), Num(96), Num(11), Num(4)))),
     \* the metrics document has totalMB: null
     StatusWith(get_status("active", "standby"),
                get_resourcemanager_status("active", "standby",
                    ClusterMetrics(JsonNull, Num(50), Num(0), Num(1))))}

----------------------------------------------------------------------------
(* failover.py: names and messages that differ between the two workflows *)

ActiveSlot(service) == IF service = "namenode" THEN "active-nn" ELSE "active-rm"

StandbySlot(service) == IF service = "namenode" THEN "standby-nn" ELSE "standby-rm"

ServiceName(service) == IF service = "namenode" THEN "NameNode" ELSE "ResourceManager"

ResultType(service) ==
    IF service = "namenode" THEN "namenode_failover" ELSE "resourcemanager_failover"

max_attempts == 6

----------------------------------------------------------------------------
(* Step 1: check status *)

\* which slot is taken to be active; "" when the step raises instead
ActiveNode(service, st) ==
    IF st.active.is_active THEN ActiveSlot(service)
    ELSE IF st.standby.is_active THEN StandbySlot(service)
    ELSE ""

StandbyNode(service, st) ==
    IF st.active.is_active THEN StandbySlot(service)
    ELSE IF st.standby.is_active THEN ActiveSlot(service)
    ELSE ""

check_status(service, st) ==
    IF ActiveNode(service, st) # ""
    THEN [step |-> "check_status",
          success |-> TRUE,
          data |-> [current_active |-> ActiveNode(service, st),
                    current_standby |-> StandbyNode(service, st),
                    active_status |-> st.active,
                    standby_status |-> st.standby],
          error |-> None]
    ELSE [step |-> "check_status",
          success |-> FALSE,
          data |-> EmptyDict,
          error |-> Str(<<"No active ", ServiceName(service), " found">>)]

\* the probe raised: the step's own handler records str(e)
check_status_raised(msg) ==
    [step |-> "check_status",
     success |-> FALSE,
     data |-> EmptyDict,
     error |-> Str(msg)]

InitialStatusMessage(service) ==
    <<"Failed to get initial ", ServiceName(service), " status">>

----------------------------------------------------------------------------
(* Step 2: execute failover *)

force_flag(f) == IF f THEN "--forcemanual" ELSE ""

Command(service, active, standby, f) ==
    <<IF service = "namenode"
      THEN "docker exec active-nn /usr/local/hadoop/bin/hdfs haadmin -failover "
      ELSE "docker exec active-rm /usr/local/hadoop/bin/yarn rmadmin -failover ",
      force_flag(f), " ", active, " ", standby>>

Output(service, active, standby) ==
    <<IF service = "namenode" THEN "Failover from "
                              ELSE "ResourceManager failover from ",
      active, " to ", standby, " initiated">>

execute_failover(service, active, standby, f) ==
    [step |-> "execute_failover",
     success |-> TRUE,
     command |-> Command(service, active, standby, f),
     output |-> Output(service, active, standby),
     error |-> None]

\* the command execution raised: the step's own handler records str(e)
execute_failover_raised(service, active, standby, f, msg) ==
    [step |-> "execute_failover",
     success |-> FALSE,
     command |-> Command(service, active, standby, f),
     output |-> <<>>,
     error |-> Str(msg)]

\* variant: the message does not carry the step's error
CommandFailedMessage_Fixed(step2) ==
    <<"Failover command failed">>

CommandFailedMessage(step2) ==
    <<"Failover command failed: ">> \o Format(step2.error)

----------------------------------------------------------------------------
(* Step 3: verify failover *)

\* variant: the orientation found by step 1 is ignored
expected_new_active_FixedSlot(service, old_active, st) ==
    st.standby.is_active

expected_new_active(service, old_active, st) ==
    IF old_active = ActiveSlot(service)
    THEN st.standby.is_active
    ELSE st.active.is_active

expected_new_standby(service, old_active, st) ==
    IF old_active = ActiveSlot(service)
    THEN ~st.active.is_active
    ELSE ~st.standby.is_active

RolesSwitched(service, old_active, st) ==
    expected_new_active(service, old_active, st)
        /\ expected_new_standby(service, old_active, st)

\* variant: the loop index is recorded instead of the attempt count
verify_success_ZeroBased(service, old_active, att, st) ==
    [step |-> "verify_failover",
     success |-> TRUE,
     data |-> [failover_verified |-> TRUE,
               new_active |-> IF old_active = ActiveSlot(service)
                              THEN StandbySlot(service)
                              ELSE ActiveSlot(service),
               new_standby |-> old_active,
               attempts |-> att,
               final_status |-> st],
     error |-> None]

verify_success(service, old_active, att, st) ==
    [step |-> "verify_failover",
     success |-> TRUE,
     data |-> [failover_verified |-> TRUE,
               new_active |-> IF old_active = ActiveSlot(service)
                              THEN StandbySlot(service)
                              ELSE ActiveSlot(service),
               new_standby |-> old_active,
               attempts |-> att + 1,
               final_status |-> st],
     error |-> None]

verify_exhausted(st) ==
    [step |-> "verify_failover",
     success |-> FALSE,
     data |-> [failover_verified |-> FALSE,
               final_status |-> st],
     error |-> Str(<<"Failover verification failed after ",
                     ToString(max_attempts), " attempts">>)]

\* a probe raised inside the loop: the step's own handler records str(e)
verify_raised(msg) ==
    [step |-> "verify_failover",
     success |-> FALSE,
     data |-> EmptyDict,
     error |-> Str(msg)]

----------------------------------------------------------------------------
(* The workflow *)

NewResult(service) ==
    [type |-> ResultType(service),
     success |-> FALSE,
     steps |-> <<>>,
     error |-> None]

\* variant: the handler sets the error but appends no step
except_handler_NoStep(res, msg) ==
    [res EXCEPT !.error = Str(msg)]

\* the workflow's handler: the message becomes the error and a final step
except_handler(res, msg) ==
    [res EXCEPT !.error = Str(msg),
                !.steps = Append(@, [step |-> "error",
                                     success |-> FALSE,
                                     error |-> Str(msg)])]

Unbound == [unbound |-> TRUE]

\* at most this many monitoring-loop tasks exist at a time
MaxTasks == 2

\* at most this many monitoring cycles are begun
MaxCycles == 2

TaskIds == 1..MaxTasks

NoCall == [name |-> "none"]

\* no workflow has been called yet
FailoverInit ==
    /\ pc = "idle"
    /\ svc = "namenode"
    /\ force = FALSE
    /\ failover_result = NewResult("namenode")
    /\ current_active = ""
    /\ current_standby = ""
    /\ attempt = 0
    /\ nn_status = Unbound
    /\ polls = <<>>
    /\ events = <<>>
    /\ escaped = None

Init ==
    /\ FailoverInit
    /\ monitoring = FALSE
    /\ current_metrics = EmptyDict
    /\ metrics_history = <<>>
    /\ logs = <<>>
    /\ tasks = [t \in TaskIds |-> "none"]
    /\ appended = 0
    /\ last_call = NoCall
    /\ last_error = None
    /\ emitted = <<>>
    /\ local_metrics = EmptyDict

\* variant: a workflow stops the monitor when it is called
Call_StopsMonitoring(service, f) ==
    /\ pc \in {"idle", "returned", "raised"}
    /\ pc' = "check_probe"
    /\ svc' = service
    /\ force' = f
    /\ failover_result' = NewResult(service)
    /\ current_active' = ""
    /\ current_standby' = ""
    /\ attempt' = 0
    /\ nn_status' = Unbound
    /\ polls' = <<>>
    /\ events' = <<"check_probe">>
    /\ escaped' = None
    /\ monitoring' = FALSE
    /\ UNCHANGED <<current_metrics, metrics_history, logs, tasks, appended,
                   last_call, last_error, emitted, local_metrics>>

\* namenode_failover(force) / resourcemanager_failover(force) is called
Call(service, f) ==
    /\ pc \in {"idle", "returned", "raised"}
    /\ pc' = "check_probe"
    /\ svc' = service
    /\ force' = f
    /\ failover_result' = NewResult(service)
    /\ current_active' = ""
    /\ current_standby' = ""
    /\ attempt' = 0
    /\ nn_status' = Unbound
    /\ polls' = <<>>
    /\ events' = <<"check_probe">>
    /\ escaped' = None
    /\ UNCHANGED monitor_vars

\* variant: the exception is not handled and leaves the workflow
Raise_Uncaught(res, msg) ==
    /\ failover_result' = res
    /\ pc' = "raised"
    /\ escaped' = Str(msg)

\* an exception raised inside the workflow's try block
Raise(res, msg) ==
    /\ failover_result' = except_handler(res, msg)
    /\ pc' = "returned"
    /\ escaped' = None

Step1Failed(step1) == ~step1["success"]

\* step 1 has its result: record it, then abort or start step 2
AfterCheckStatus(step1) ==
    LET res == [failover_result EXCEPT !.steps = Append(@, step1)] IN
    IF Step1Failed(step1)
    THEN /\ Raise(res, InitialStatusMessage(svc))
         /\ UNCHANGED <<svc, force, current_active, current_standby,
                        attempt, nn_status, polls, events>>
    ELSE /\ failover_result' = res
         /\ current_active' = step1.data.current_active
         /\ current_standby' = step1.data.current_standby
         /\ events' = Append(events, "command")
         /\ pc' = "execute"
         /\ UNCHANGED <<svc, force, attempt, nn_status, polls, escaped>>

CheckStatusReturns ==
    /\ pc = "check_probe"
    /\ \E st \in Statuses : AfterCheckStatus(check_status(svc, st))
    /\ UNCHANGED monitor_vars

CheckStatusRaises ==
    /\ pc = "check_probe"
    /\ \E msg \in ExcMessages : AfterCheckStatus(check_status_raised(msg))
    /\ UNCHANGED monitor_vars

\* variant: a failed step 2 does not abort the workflow
Step2Failed_Never(step2) == FALSE

Step2Failed(step2) == ~step2["success"]

\* step 2 has its result: record it, then abort or wait for the settle delay
AfterExecute(step2) ==
    LET res == [failover_result EXCEPT !.steps = Append(@, step2)] IN
    IF Step2Failed(step2)
    THEN /\ Raise(res, CommandFailedMessage(step2))
         /\ UNCHANGED <<svc, force, current_active, current_standby,
                        attempt, nn_status, polls, events>>
    ELSE /\ failover_result' = res
         /\ events' = Append(events, "sleep 10")
         /\ pc' = "settle"
         /\ UNCHANGED <<svc, force, current_active, current_standby,
                        attempt, nn_status, polls, escaped>>

ExecuteReturns ==
    /\ pc = "execute"
    /\ AfterExecute(execute_failover(svc, current_active, current_standby, force))
    /\ UNCHANGED monitor_vars

ExecuteRaises ==
    /\ pc = "execute"
    /\ \E msg \in ExcMessages :
          AfterExecute(execute_failover_raised(svc, current_active,
                                               current_standby, force, msg))
    /\ UNCHANGED monitor_vars

\* the settle delay is over: the verification loop starts with its own delay
Settle ==
    /\ pc = "settle"
    /\ pc' = "verify_sleep"
    /\ attempt' = 0
    /\ events' = Append(events, "sleep 5")
    /\ UNCHANGED <<svc, force, failover_result, current_active,
                   current_standby, nn_status, polls, escaped>>
    /\ UNCHANGED monitor_vars

\* the delay of one attempt is over: the status probe is issued
VerifySleep ==
    /\ pc = "verify_sleep"
    /\ pc' = "verify_probe"
    /\ events' = Append(events, "verify_probe")
    /\ UNCHANGED <<svc, force, failover_result, current_active,
                   current_standby, attempt, nn_status, polls, escaped>>
    /\ UNCHANGED monitor_vars

\* variant: the loop runs for one attempt more
MoreAttempts_OneMore(att) == att + 1 < max_attempts + 1

\* the for loop has another iteration after the one with index att
MoreAttempts(att) == att + 1 < max_attempts

\* variant: reaching the end of step 3 counts as success
WorkflowSuccess_Always(step3) == TRUE

WorkflowSuccess(step3) == step3["success"]

\* step 3 has its result: record it and return
\* variant: a failed verification is raised like a failed step 1 or 2
AfterVerify_RaisesOnFailure(step3) ==
    /\ failover_result' =
           IF step3.success
           THEN [failover_result EXCEPT !.steps = Append(@, step3),
                                        !.success = TRUE]
           ELSE except_handler(
                    [failover_result EXCEPT !.steps = Append(@, step3)],
                    <<"Failover verification failed">>)
    /\ pc' = "returned"

AfterVerify(step3) ==
    /\ failover_result' = [failover_result EXCEPT
                              !.steps = Append(@, step3),
                              !.success = WorkflowSuccess(step3)]
    /\ pc' = "returned"

VerifyProbeReturns ==
    /\ pc = "verify_probe"
    /\ \E st \in Statuses :
          /\ nn_status' = st
          /\ polls' = Append(polls, RolesSwitched(svc, current_active, st))
          /\ IF RolesSwitched(svc, current_active, st)
             THEN /\ AfterVerify(verify_success(svc, current_active, attempt, st))
                  /\ UNCHANGED <<attempt, events>>
             ELSE IF MoreAttempts(attempt)
             THEN /\ attempt' = attempt + 1
                  /\ pc' = "verify_sleep"
                  /\ events' = Append(events, "sleep 5")
                  /\ UNCHANGED failover_result
             ELSE /\ AfterVerify(verify_exhausted(st))
                  /\ UNCHANGED <<attempt, events>>
    /\ UNCHANGED <<svc, force, current_active, current_standby, escaped>>
    /\ UNCHANGED monitor_vars

VerifyProbeRaises ==
    /\ pc = "verify_probe"
    /\ \E msg \in ExcMessages : AfterVerify(verify_raised(msg))
    /\ UNCHANGED <<svc, force, current_active, current_standby, attempt,
                   nn_status, polls, events, escaped>>
    /\ UNCHANGED monitor_vars

Next ==
    \/ \E service \in Services, f \in BOOLEAN : Call(service, f)
    \/ CheckStatusReturns
    \/ CheckStatusRaises
    \/ ExecuteReturns
    \/ ExecuteRaises
    \/ Settle
    \/ VerifySleep
    \/ VerifyProbeReturns
    \/ VerifyProbeRaises

Spec == Init /\ [][Next]_vars

\* an awaited delay elapses and an awaited probe answers or raises
FairSpec ==
    /\ Spec
    /\ WF_vars(Settle)
    /\ WF_vars(VerifySleep)
    /\ WF_vars(VerifyProbeReturns \/ VerifyProbeRaises)

\* what leaves the workflow when its task is cancelled
Cancelled == [none |-> FALSE, text |-> <<>>, kind |-> "CancelledError"]

\* the task running the workflow is cancelled while it waits in step 3:
\* CancelledError is raised at the await; it is not an Exception, so neither
\* the step's handler nor the workflow's handler catches it
Cancel ==
    /\ pc \in {"settle", "verify_sleep", "verify_probe"}
    /\ pc' = "raised"
    /\ escaped' = Cancelled
    /\ events' = Append(events, "cancel")
    /\ UNCHANGED <<svc, force, failover_result, current_active,
                   current_standby, attempt, nn_status, polls>>
    /\ UNCHANGED monitor_vars

NextCancel ==
    \/ Next
    \/ Cancel

CancelSpec == Init /\ [][NextCancel]_vars

----------------------------------------------------------------------------
(* monitoring.py: building one snapshot *)

\* d.get(k, default)
Get(d, k, default) == IF k \in DOMAIN d THEN d[k] ELSE default

\* d[k] = v
With(d, k, v) == [x \in DOMAIN d \cup {k} |-> IF x = k THEN v ELSE d[x]]

max_history_size == 100

max_logs_size == 200

EmptyMetrics ==
    [cluster_health |-> EmptyDict,
     namenode_metrics |-> EmptyDict,
     resourcemanager_metrics |-> EmptyDict,
     node_metrics |-> EmptyDict,
     service_metrics |-> EmptyDict,
     performance_metrics |-> EmptyDict]

\* the entries of namenode_metrics and of resourcemanager_metrics
HaMetrics(status) ==
    [active_healthy |-> Get(Get(status, "active", EmptyDict), "healthy", FALSE),
     standby_healthy |-> Get(Get(status, "standby", EmptyDict), "healthy", FALSE),
     active_state |-> Get(Get(status, "active", EmptyDict), "ha_state", "unknown"),
     standby_state |-> Get(Get(status, "standby", EmptyDict), "ha_state", "unknown"),
     ha_enabled |-> Get(status, "ha_enabled", FALSE)]

\* the active ResourceManager's cluster metrics, {} when it has none
ActiveRmMetrics(cluster_status) ==
    Get(Get(Get(cluster_status, "resourcemanager", EmptyDict),
            "active", EmptyDict), "metrics", EmptyDict)

\* appsPending + appsRunning cannot be added when one of them is null
PerformanceRaises(rm_metrics) ==
    /\ DOMAIN rm_metrics # {}
    /\ \/ Get(rm_metrics, "appsPending", Num(0)).null
       \/ Get(rm_metrics, "appsRunning", Num(0)).null

PerformanceMetrics(rm_metrics) ==
    IF DOMAIN rm_metrics = {}
    THEN EmptyDict
    ELSE [total_memory |-> Get(rm_metrics, "totalMB", Num(0)),
          allocated_memory |-> Get(rm_metrics, "allocatedMB", Num(0)),
          running_apps |-> Num(Get(rm_metrics, "appsPending", Num(0)).n
                               + Get(rm_metrics, "appsRunning", Num(0)).n),
          pending_apps |-> Get(rm_metrics, "appsPending", Num(0))]

CountWhere(seq, P(_)) == Cardinality({i \in DOMAIN seq : P(seq[i])})

NodeMetrics(nodes_health) ==
    LET dn == Get(nodes_health, "datanodes", <<>>)
        nm == Get(nodes_health, "nodemanagers", <<>>)
        jn == Get(nodes_health, "journalnodes", <<>>)
        IsNormal(n) == Get(n, "state", "") = "NORMAL"
        IsRunning(n) == Get(n, "state", "") = "RUNNING"
        IsHealthy(n) == Get(n, "healthy", FALSE)
    IN  [total_datanodes |-> Len(dn),
         healthy_datanodes |-> CountWhere(dn, IsNormal),
         total_nodemanagers |-> Len(nm),
         healthy_nodemanagers |-> CountWhere(nm, IsRunning),
         total_journalnodes |-> Len(jn),
         healthy_journalnodes |-> CountWhere(jn, IsHealthy)]

ServiceMetrics(services) ==
    [historyserver_healthy |->
         Get(Get(services, "historyserver", EmptyDict), "healthy", FALSE),
     hive_healthy |->
         Get(Get(services, "hive", EmptyDict), "healthy", FALSE)]

\* f"{memory_usage:.1f}%", the usage being allocated / total * 100
FormatUsage(allocated, total) ==
    LET tenths == (2000 * allocated + total) \div (2 * total) IN
    <<ToString(tenths \div 10), ".", ToString(tenths % 10), "%">>

\* a comparison of the performance checks meets a null
PerformanceCheckRaises(perf) ==
    \/ Get(perf, "total_memory", Num(0)).null
    \/ /\ Get(perf, "total_memory", Num(0)).n > 0
       /\ Get(perf, "allocated_memory", Num(0)).null
    \/ Get(perf, "pending_apps", Num(0)).null

NullComparisonMessage ==
    <<"'>' not supported between instances of 'NoneType' and 'int'">>

NullAdditionMessage ==
    <<"unsupported operand type(s) for +: 'NoneType' and 'int'">>

HaIssues(name, m) ==
    (IF ~Get(m, "active_healthy", FALSE)
     THEN << <<"Active ", name, " is unhealthy">> >> ELSE <<>>)
    \o (IF ~Get(m, "standby_healthy", FALSE)
        THEN << <<"Standby ", name, " is unhealthy">> >> ELSE <<>>)
    \o (IF Get(m, "active_state", "None") # "active"
        THEN << <<"Active ", name, " is in '",
                  Get(m, "active_state", "None"), "' state">> >> ELSE <<>>)
    \o (IF Get(m, "standby_state", "None") # "standby"
        THEN << <<"Standby ", name, " is in '",
                  Get(m, "standby_state", "None"), "' state">> >> ELSE <<>>)

UnhealthyIssue(node_metrics, total, healthy, name) ==
    LET unhealthy == Get(node_metrics, total, 0) - Get(node_metrics, healthy, 0)
    IN  IF unhealthy > 0
        THEN << <<ToString(unhealthy), " ", name, "(s) are unhealthy">> >>
        ELSE <<>>

\* defined when PerformanceCheckRaises does not hold
identify_issues(metrics) ==
    LET node == Get(metrics, "node_metrics", EmptyDict)
        service == Get(metrics, "service_metrics", EmptyDict)
        perf == Get(metrics, "performance_metrics", EmptyDict)
        total == Get(perf, "total_memory", Num(0)).n
        allocated == Get(perf, "allocated_memory", Num(0)).n
        pending == Get(perf, "pending_apps", Num(0)).n
    IN  HaIssues("NameNode", Get(metrics, "namenode_metrics", EmptyDict))
        \o HaIssues("ResourceManager",
                    Get(metrics, "resourcemanager_metrics", EmptyDict))
        \o UnhealthyIssue(node, "total_datanodes", "healthy_datanodes",
                          "DataNode")
        \o UnhealthyIssue(node, "total_nodemanagers", "healthy_nodemanagers",
                          "NodeManager")
        \o UnhealthyIssue(node, "total_journalnodes", "healthy_journalnodes",
                          "JournalNode")
        \o (IF ~Get(service, "historyserver_healthy", FALSE)
            THEN << <<"History Server is unhealthy">> >> ELSE <<>>)
        \o (IF ~Get(service, "hive_healthy", FALSE)
            THEN << <<"Hive WebUI is unhealthy">> >> ELSE <<>>)
        \o (IF total > 0 /\ allocated * 100 > 90 * total
            THEN << <<"High memory usage: ">> \o FormatUsage(allocated, total) >>
            ELSE <<>>)
        \o (IF pending > 5
            THEN << <<ToString(pending), " applications are pending">> >>
            ELSE <<>>)

\* variant: a healthy standby earns its points whatever state it reports
HaScore_StandbyAnyState(m) ==
    (IF Get(m, "active_healthy", FALSE) /\ Get(m, "active_state", "None") = "active"
     THEN 15 ELSE 0)
    + (IF Get(m, "standby_healthy", FALSE) THEN 10 ELSE 0)

HaScore(m) ==
    (IF Get(m, "active_healthy", FALSE) /\ Get(m, "active_state", "None") = "active"
     THEN 15 ELSE 0)
    + (IF Get(m, "standby_healthy", FALSE)
          /\ Get(m, "standby_state", "None") = "standby"
       THEN 10 ELSE 0)

\* variant: 15 points for every healthy node
NodeScore_NotDivided(node_metrics, total, healthy) ==
    IF Get(node_metrics, total, 1) > 0
    THEN Get(node_metrics, healthy, 0) * 15
    ELSE 0

\* int((healthy / total) * 15)
NodeScore(node_metrics, total, healthy) ==
    IF Get(node_metrics, total, 1) > 0
    THEN (Get(node_metrics, healthy, 0) * 15) \div Get(node_metrics, total, 1)
    ELSE 0

health_score(metrics) ==
    LET node == Get(metrics, "node_metrics", EmptyDict)
        service == Get(metrics, "service_metrics", EmptyDict)
    IN  HaScore(Get(metrics, "namenode_metrics", EmptyDict))
        + HaScore(Get(metrics, "resourcemanager_metrics", EmptyDict))
        + NodeScore(node, "total_datanodes", "healthy_datanodes")
        + NodeScore(node, "total_nodemanagers", "healthy_nodemanagers")
        + (IF Get(service, "historyserver_healthy", FALSE) THEN 10 ELSE 0)
        + (IF Get(service, "hive_healthy", FALSE) THEN 10 ELSE 0)

\* variant: the lower bounds are exclusive
health_status_Exclusive(percentage) ==
    IF percentage > 90 THEN "excellent"
    ELSE IF percentage > 75 THEN "good"
    ELSE IF percentage > 50 THEN "warning"
    ELSE "critical"

health_status(percentage) ==
    IF percentage >= 90 THEN "excellent"
    ELSE IF percentage >= 75 THEN "good"
    ELSE IF percentage >= 50 THEN "warning"
    ELSE "critical"

\* defined when PerformanceCheckRaises does not hold
calculate_cluster_health(metrics) ==
    [score |-> health_score(metrics),
     max_score |-> 100,
     percentage |-> (health_score(metrics) * 100) \div 100,
     status |-> health_status((health_score(metrics) * 100) \div 100),
     issues |-> identify_issues(metrics)]

\* metrics after the NameNode and ResourceManager sections of _collect_metrics
ha_metrics(cluster_status) ==
    [EmptyMetrics EXCEPT
        !.namenode_metrics =
            HaMetrics(Get(cluster_status, "namenode", EmptyDict)),
        !.resourcemanager_metrics =
            HaMetrics(Get(cluster_status, "resourcemanager", EmptyDict))]

\* metrics when _collect_metrics is about to call _calculate_cluster_health
gathered_metrics(cluster_status) ==
    [ha_metrics(cluster_status) EXCEPT
        !.performance_metrics =
            PerformanceMetrics(ActiveRmMetrics(cluster_status)),
        !.node_metrics = NodeMetrics(Get(cluster_status, "nodes", EmptyDict)),
        !.service_metrics =
            ServiceMetrics(Get(cluster_status, "services", EmptyDict))]

\* _collect_metrics when get_cluster_status returned cluster_status
collect_metrics(cluster_status) ==
    LET m1 == ha_metrics(cluster_status)
        m2 == gathered_metrics(cluster_status)
    IN  IF PerformanceRaises(ActiveRmMetrics(cluster_status))
        THEN With(m1, "error", Str(NullAdditionMessage))
        ELSE IF PerformanceCheckRaises(m2.performance_metrics)
        THEN With(m2, "error", Str(NullComparisonMessage))
        ELSE [m2 EXCEPT !.cluster_health = calculate_cluster_health(m2)]

\* what the try block of _collect_metrics raises after get_cluster_status
\* returned cluster_status, if anything
collect_metrics_error(cluster_status) ==
    IF PerformanceRaises(ActiveRmMetrics(cluster_status))
    THEN Str(NullAdditionMessage)
    ELSE IF PerformanceCheckRaises(
                PerformanceMetrics(ActiveRmMetrics(cluster_status)))
    THEN Str(NullComparisonMessage)
    ELSE None

\* variant: the handler does not record the error
collect_metrics_raised_NoError(msg) == EmptyMetrics

\* _collect_metrics when get_cluster_status raised
collect_metrics_raised(msg) == With(EmptyMetrics, "error", Str(msg))

\* variant: on overflow the newest snapshots are the ones dropped
add_to_history_KeepOldest(history, metrics) ==
    LET h == Append(history, metrics) IN
    IF Len(h) > max_history_size
    THEN SubSeq(h, 1, max_history_size)
    ELSE h

\* _add_to_history
add_to_history(history, metrics) ==
    LET h == Append(history, metrics) IN
    IF Len(h) > max_history_size
    THEN SubSeq(h, Len(h) - max_history_size + 1, Len(h))
    ELSE h

\* what _collect_metrics makes of each answer of get_cluster_status
Collected ==
    [cs \in ClusterStatuses |->
        [metrics |-> collect_metrics(cs), raised |-> collect_metrics_error(cs)]]

----------------------------------------------------------------------------
(* monitoring.py: the event check of one cycle *)

LogEntry(level, message) == [level |-> level, message |-> message]

\* variant: the slice keeps one entry more than the capacity
newest_logs_OneMore(l) ==
    IF Len(l) > max_logs_size
    THEN SubSeq(l, Len(l) - max_logs_size, Len(l))
    ELSE l

\* the newest max_logs_size entries of a log
newest_logs(l) ==
    IF Len(l) > max_logs_size
    THEN SubSeq(l, Len(l) - max_logs_size + 1, Len(l))
    ELSE l

\* _add_log
add_log(lg, entry) == newest_logs(Append(lg, entry))

\* _add_log called for each of the entries in turn: dropping the oldest
\* entries after every append leaves what dropping them after the last does
add_logs(lg, entries) == newest_logs(lg \o entries)

StateChange(name, role, curr, prev) ==
    LET key == IF role = "active" THEN "active_state" ELSE "standby_state" IN
    IF Get(curr, key, "None") # Get(prev, key, "None")
    THEN << LogEntry("warning",
                     <<name, " ", role, " state changed: ",
                       Get(prev, key, "None"), " -> ", Get(curr, key, "None")>>) >>
    ELSE <<>>

\* _check_ha_state_changes
check_ha_state_changes(current, previous) ==
    LET curr_nn == Get(current, "namenode_metrics", EmptyDict)
        prev_nn == Get(previous, "namenode_metrics", EmptyDict)
        curr_rm == Get(current, "resourcemanager_metrics", EmptyDict)
        prev_rm == Get(previous, "resourcemanager_metrics", EmptyDict)
    IN  StateChange("NameNode", "active", curr_nn, prev_nn)
        \o StateChange("NameNode", "standby", curr_nn, prev_nn)
        \o StateChange("ResourceManager", "active", curr_rm, prev_rm)
        \o StateChange("ResourceManager", "standby", curr_rm, prev_rm)

Range(seq) == {seq[i] : i \in DOMAIN seq}

\* the orders in which a for loop may run through a set
Orderings(S) ==
    {f \in [1..Cardinality(S) -> S] :
        \A i, j \in 1..Cardinality(S) : f[i] = f[j] => i = j}

NewIssues(current, previous) ==
    Range(Get(Get(current, "cluster_health", EmptyDict), "issues", <<>>))
        \ Range(Get(Get(previous, "cluster_health", EmptyDict), "issues", <<>>))

ResolvedIssues(current, previous) == NewIssues(previous, current)

\* variant: the resolved issues are logged before the new ones
check_health_changes_ResolvedFirst(current, previous, new_order, resolved_order) ==
    LET curr_status == Get(Get(current, "cluster_health", EmptyDict),
                           "status", "None")
        prev_status == Get(Get(previous, "cluster_health", EmptyDict),
                           "status", "None")
    IN  (IF curr_status # prev_status
         THEN << LogEntry(IF curr_status \in {"warning", "critical"}
                          THEN "error" ELSE "info",
                          <<"Cluster health status changed: ",
                            prev_status, " -> ", curr_status>>) >>
         ELSE <<>>)
        \o [i \in DOMAIN resolved_order |->
               LogEntry("info", <<"Issue resolved: ">> \o resolved_order[i])]
        \o [i \in DOMAIN new_order |->
               LogEntry("warning", <<"New issue detected: ">> \o new_order[i])]

\* _check_health_changes, its two loops running in the given orders
check_health_changes(current, previous, new_order, resolved_order) ==
    LET curr_status == Get(Get(current, "cluster_health", EmptyDict),
                           "status", "None")
        prev_status == Get(Get(previous, "cluster_health", EmptyDict),
                           "status", "None")
    IN  (IF curr_status # prev_status
         THEN << LogEntry(IF curr_status \in {"warning", "critical"}
                          THEN "error" ELSE "info",
                          <<"Cluster health status changed: ",
                            prev_status, " -> ", curr_status>>) >>
         ELSE <<>>)
        \o [i \in DOMAIN new_order |->
               LogEntry("warning", <<"New issue detected: ">> \o new_order[i])]
        \o [i \in DOMAIN resolved_order |->
               LogEntry("info", <<"Issue resolved: ">> \o resolved_order[i])]

\* variant: the warning threshold is tested after the critical one, not else
check_performance_issues_BothLevels(current) ==
    LET perf == Get(current, "performance_metrics", EmptyDict)
        total == Get(perf, "total_memory", Num(0))
        allocated == Get(perf, "allocated_memory", Num(0))
        pending == Get(perf, "pending_apps", Num(0))
        usable == ~total.null /\ total.n > 0 /\ ~allocated.null
        critical == IF usable /\ allocated.n * 100 > 95 * total.n
                    THEN << LogEntry("error",
                                     <<"Critical memory usage: ">>
                                         \o FormatUsage(allocated.n, total.n)) >>
                    ELSE <<>>
        high == IF usable /\ allocated.n * 100 > 85 * total.n
                THEN << LogEntry("warning",
                                 <<"High memory usage: ">>
                                     \o FormatUsage(allocated.n, total.n)) >>
                ELSE <<>>
        backlog == IF total.null \/ (total.n > 0 /\ allocated.null)
                      \/ pending.null \/ pending.n <= 10
                   THEN <<>>
                   ELSE << LogEntry("warning",
                                    <<"High number of pending applications: ",
                                      ToString(pending.n)>>) >>
    IN  critical \o high \o backlog

\* the entries _check_performance_issues adds before it returns or raises
check_performance_issues(current) ==
    LET perf == Get(current, "performance_metrics", EmptyDict)
        total == Get(perf, "total_memory", Num(0))
        allocated == Get(perf, "allocated_memory", Num(0))
        pending == Get(perf, "pending_apps", Num(0))
        memory == IF total.null \/ total.n <= 0 \/ allocated.null THEN <<>>
                  ELSE IF allocated.n * 100 > 95 * total.n
                  THEN << LogEntry("error",
                                   <<"Critical memory usage: ">>
                                       \o FormatUsage(allocated.n, total.n)) >>
                  ELSE IF allocated.n * 100 > 85 * total.n
                  THEN << LogEntry("warning",
                                   <<"High memory usage: ">>
                                       \o FormatUsage(allocated.n, total.n)) >>
                  ELSE <<>>
        backlog == IF total.null \/ (total.n > 0 /\ allocated.null)
                      \/ pending.null \/ pending.n <= 10
                   THEN <<>>
                   ELSE << LogEntry("warning",
                                    <<"High number of pending applications: ",
                                      ToString(pending.n)>>) >>
    IN  memory \o backlog

\* variant: the event check also runs on the first snapshot, which it
\* compares with an empty one
event_entries_FromFirst(metrics, history, new_order, resolved_order) ==
    LET previous == IF Len(history) < 2 THEN EmptyMetrics
                    ELSE history[Len(history) - 1]
    IN  check_ha_state_changes(metrics, previous)
        \o check_health_changes(metrics, previous, new_order, resolved_order)
        \o check_performance_issues(metrics)

\* variant: the baseline is the oldest snapshot of the history
previous_snapshot_Oldest(history) == history[1]

\* previous = self.metrics_history[-2]
previous_snapshot(history) == history[Len(history) - 1]

\* the entries _check_for_events gives to _add_log, in order
event_entries(metrics, history, new_order, resolved_order) ==
    IF Len(history) < 2
    THEN <<>>
    ELSE LET previous == previous_snapshot(history) IN
         check_ha_state_changes(metrics, previous)
         \o check_health_changes(metrics, previous, new_order, resolved_order)
         \o check_performance_issues(metrics)

\* _check_for_events: the entries, the log afterwards, and whether it raised
check_for_events(metrics, history, lg, new_order, resolved_order) ==
    [entries |-> event_entries(metrics, history, new_order, resolved_order),
     logs |-> add_logs(lg, event_entries(metrics, history,
                                         new_order, resolved_order)),
     raised |-> /\ Len(history) >= 2
                /\ PerformanceCheckRaises(
                       Get(metrics, "performance_metrics", EmptyDict))]

----------------------------------------------------------------------------
(* monitoring.py: start, stop and the monitoring loop *)

FreeTasks == {t \in TaskIds : tasks[t] = "none"}

\* variant: the flag is not tested before the loop task is created
StartCreatesTask_Always == TRUE

\* the test of start_monitoring
StartCreatesTask == ~monitoring

start_monitoring ==
    /\ last_call' = [name |-> "start_monitoring", was_monitoring |-> monitoring]
    /\ IF StartCreatesTask
       THEN /\ FreeTasks # {}
            /\ monitoring' = TRUE
            /\ tasks' = [tasks EXCEPT
                            ![CHOOSE t \in FreeTasks :
                                  \A u \in FreeTasks : t <= u] = "created"]
       ELSE UNCHANGED <<monitoring, tasks>>
    /\ UNCHANGED <<current_metrics, metrics_history, logs, appended,
                   last_error, emitted,
                   local_metrics>>
    /\ UNCHANGED failover_vars

\* variant: stopping the monitor empties the history
stop_monitoring_ClearsHistory ==
    /\ last_call' = [name |-> "stop_monitoring", appended |-> appended]
    /\ monitoring' = FALSE
    /\ metrics_history' = <<>>
    /\ UNCHANGED <<current_metrics, logs, tasks, appended, last_error,
                   emitted, local_metrics>>
    /\ UNCHANGED failover_vars

stop_monitoring ==
    /\ last_call' = [name |-> "stop_monitoring", appended |-> appended]
    /\ monitoring' = FALSE
    /\ UNCHANGED <<current_metrics, metrics_history, logs, tasks, appended,
                   last_error, emitted,
                   local_metrics>>
    /\ UNCHANGED failover_vars

Collecting == {t \in TaskIds : tasks[t] = "collecting"}

CyclesBegun == appended + Cardinality(Collecting)

\* variant: the loop ends after a cycle that raised
LoopContinues_UnlessBackoff(t) == monitoring /\ tasks[t] # "sleep 10"

\* the test of the while loop, made by task t
LoopContinues(t) == monitoring

\* the top of the loop: begin a cycle up to its probe, or leave the loop
WhileMonitoring(t) ==
    /\ IF LoopContinues(t)
       THEN /\ CyclesBegun < MaxCycles
            /\ tasks' = [tasks EXCEPT ![t] = "collecting"]
       ELSE tasks' = [tasks EXCEPT ![t] = "none"]
    /\ UNCHANGED <<monitoring, current_metrics, metrics_history, logs,
                   appended, last_call, last_error, emitted,
                   local_metrics>>
    /\ UNCHANGED failover_vars

\* a created task runs for the first time
TaskStart(t) ==
    /\ tasks[t] = "created"
    /\ WhileMonitoring(t)

Sleep5Elapsed(t) ==
    /\ tasks[t] = "sleep 5"
    /\ WhileMonitoring(t)

Sleep10Elapsed(t) ==
    /\ tasks[t] = "sleep 10"
    /\ WhileMonitoring(t)

\* the delay the loop awaits after the rest of the cycle raised or not
NextDelay(raised) == IF raised THEN "sleep 10" ELSE "sleep 5"

\* variant: the entries of the event check reach the log in a later step
Cycle_LogsLater(t, metrics, raised) ==
    /\ current_metrics' = metrics
    /\ last_error' = raised
    /\ appended' = appended + 1
    /\ UNCHANGED <<monitoring, last_call, local_metrics, logs>>
    /\ UNCHANGED failover_vars
    /\ \E h \in {add_to_history(metrics_history, metrics)} :
          /\ metrics_history' = h
          /\ \E previous \in {IF Len(h) >= 2 THEN h[Len(h) - 1] ELSE metrics} :
             \E new_order \in Orderings(NewIssues(metrics, previous)),
                resolved_order \in Orderings(ResolvedIssues(metrics, previous)) :
             \E ev \in {check_for_events(metrics, h, logs,
                                         new_order, resolved_order)} :
                /\ emitted' = ev.entries
                /\ tasks' = [tasks EXCEPT ![t] = NextDelay(ev.raised)]

\* the cycle from the return of _collect_metrics to the next delay;
\* raised is what the collection caught, if anything
Cycle(t, metrics, raised) ==
    /\ current_metrics' = metrics
    /\ last_error' = raised
    /\ appended' = appended + 1
    /\ UNCHANGED <<monitoring, last_call, local_metrics>>
    /\ UNCHANGED failover_vars
    /\ \E h \in {add_to_history(metrics_history, metrics)} :
          /\ metrics_history' = h
          /\ \E previous \in {IF Len(h) >= 2 THEN previous_snapshot(h)
                               ELSE metrics} :
             \E new_issues \in {NewIssues(metrics, previous)},
                resolved_issues \in {ResolvedIssues(metrics, previous)} :
             \E new_order \in Orderings(new_issues),
                resolved_order \in Orderings(resolved_issues) :
             \E ev \in {check_for_events(metrics, h, logs,
                                         new_order, resolved_order)} :
                /\ logs' = ev.logs
                /\ emitted' = ev.entries
                /\ tasks' = [tasks EXCEPT ![t] = NextDelay(ev.raised)]

CollectReturns(t) ==
    /\ tasks[t] = "collecting"
    /\ \E cs \in ClusterStatuses :
          Cycle(t, Collected[cs].metrics, Collected[cs].raised)

\* variant: the snapshot of a failed collection is published, not stored
CollectRaises_NotStored(t) ==
    /\ tasks[t] = "collecting"
    /\ \E msg \in ExcMessages :
          /\ current_metrics' = collect_metrics_raised(msg)
          /\ last_error' = Str(msg)
    /\ appended' = appended + 1
    /\ emitted' = <<>>
    /\ tasks' = [tasks EXCEPT ![t] = "sleep 5"]
    /\ UNCHANGED <<monitoring, metrics_history, logs, last_call,
                   local_metrics>>
    /\ UNCHANGED failover_vars

CollectRaises(t) ==
    /\ tasks[t] = "collecting"
    /\ \E msg \in ExcMessages :
       \E metrics \in {collect_metrics_raised(msg)} :
          Cycle(t, metrics, Str(msg))

MonitorNext ==
    \/ start_monitoring
    \/ stop_monitoring
    \/ \E t \in TaskIds : TaskStart(t)
    \/ \E t \in TaskIds : CollectReturns(t)
    \/ \E t \in TaskIds : CollectRaises(t)
    \/ \E t \in TaskIds : Sleep5Elapsed(t)
    \/ \E t \in TaskIds : Sleep10Elapsed(t)

MonitorSpec == Init /\ [][MonitorNext]_vars

\* a task that can run does run: delays elapse and probes answer or raise
FairMonitorSpec ==
    /\ MonitorSpec
    /\ \A t \in TaskIds :
          WF_vars(TaskStart(t) \/ Sleep5Elapsed(t) \/ Sleep10Elapsed(t)
                      \/ CollectRaises(t) \/ CollectReturns(t))

----------------------------------------------------------------------------
(* monitoring.py: the monitor after a long run, its buffers nearly full *)

\* two members of ClusterStatuses
HealthyStatus ==
    StatusWith(get_status("active", "standby"),
               get_resourcemanager_status("active", "standby", QuietMetrics))

StandbyRmSilent ==
    StatusWith(get_status("active", "standby"),
               get_resourcemanager_status("active", "no answer", QuietMetrics))

\* the snapshot of cycle i of a run in which the standby ResourceManager
\* answers in every other cycle only
FlappingSnapshot(i) ==
    IF i % 2 = 1 THEN Collected[HealthyStatus].metrics
    ELSE Collected[StandbyRmSilent].metrics

\* the entries the event check of cycle i of that run emits, i >= 2
FlappingEntries(i) ==
    LET m == FlappingSnapshot(i)
        previous == FlappingSnapshot(i - 1)
    IN  event_entries(m, <<previous, m>>,
                      CHOOSE o \in Orderings(NewIssues(m, previous)) : TRUE,
                      CHOOSE o \in Orderings(ResolvedIssues(m, previous)) : TRUE)

\* every cycle of that run but the first emits this many entries
EntriesPerCycle == Len(FlappingEntries(2))

\* the history and the log after the first n cycles of that run
long_run(n) ==
    [history |-> [i \in 1..n |-> FlappingSnapshot(i)],
     logs |-> newest_logs(
                  [k \in 1..(EntriesPerCycle * (n - 1)) |->
                      FlappingEntries(2 + (k - 1) \div EntriesPerCycle)
                          [((k - 1) % EntriesPerCycle) + 1]]),
     emitted |-> IF n >= 2 THEN FlappingEntries(n) ELSE <<>>]

\* the numbers of cycles after which a buffer is full or a cycle away from it
LongRunLengths ==
    {n \in 1..max_history_size :
        \/ n >= max_history_size - 1
        \/ Len(long_run(n).logs) \in (max_logs_size - 2)..(max_logs_size - 1)}

\* the monitor was started, has run that many cycles and waits for the next
LongRunInit ==
    /\ FailoverInit
    /\ \E n \in LongRunLengths :
          /\ metrics_history = long_run(n).history
          /\ logs = long_run(n).logs
          /\ emitted = long_run(n).emitted
          /\ current_metrics = FlappingSnapshot(n)
    /\ monitoring = TRUE
    /\ tasks = [t \in TaskIds |-> IF t = 1 THEN "sleep 5" ELSE "none"]
    /\ appended = 0
    /\ last_call = [name |-> "start_monitoring", was_monitoring |-> FALSE]
    /\ last_error = None
    /\ local_metrics = EmptyDict

\* the loop goes on by itself: nobody calls start_monitoring or stop_monitoring
LongRunNext ==
    \/ \E t \in TaskIds : CollectReturns(t)
    \/ \E t \in TaskIds : CollectRaises(t)
    \/ \E t \in TaskIds : Sleep5Elapsed(t)
    \/ \E t \in TaskIds : Sleep10Elapsed(t)

LongRunSpec == LongRunInit /\ [][LongRunNext]_vars

----------------------------------------------------------------------------
(* monitoring.py: the health aggregator applied to one gathered snapshot *)

\* the largest number of nodes of one class the cluster may report
MaxNodes == 2

\* how many nodes a class has, up to n, and how many of them are healthy
NodeCounts(n) == {c \in (0..n) \X (0..n) : c[2] <= c[1]}

\* the node list of a class: c[1] nodes, the first c[2] in the state healthy
NodeStates(c, healthy, other) ==
    NodeList([i \in 1..c[1] |-> IF i <= c[2] THEN healthy ELSE other])

\* the cluster metrics documents the active ResourceManager may return
MetricsDocuments ==
    {QuietMetrics,
     ClusterMetrics(Num(100), Num(96), Num(11), Num(4)),
     ClusterMetrics(JsonNull, Num(50), Num(0), Num(1))}

\* what get_cluster_status may answer when no class has more than n nodes
AnyClusterStatus(n) ==
    {get_cluster_status(get_status(na, ns),
                        get_resourcemanager_status(ra, rs, doc),
                        NodeStates(dn, "NORMAL", "DECOMMISSIONED"),
                        NodeStates(nm, "RUNNING", "LOST"),
                        HealthyNodes.journalnodes, hs, hive) :
        na \in Answers, ns \in Answers, ra \in Answers, rs \in Answers,
        doc \in MetricsDocuments, dn \in NodeCounts(n), nm \in NodeCounts(n),
        hs \in BOOLEAN, hive \in BOOLEAN}

\* _collect_metrics has gathered every section and is about to aggregate
SnapshotInit ==
    /\ FailoverInit
    /\ monitoring = FALSE
    /\ current_metrics = EmptyDict
    /\ metrics_history = <<>>
    /\ logs = <<>>
    /\ tasks = [t \in TaskIds |-> "none"]
    /\ appended = 0
    /\ last_call = NoCall
    /\ last_error = None
    /\ emitted = <<>>
    /\ local_metrics \in {gathered_metrics(cs) : cs \in AnyClusterStatus(MaxNodes)}

Aggregating ==
    /\ "error" \notin DOMAIN local_metrics
    /\ Get(local_metrics, "cluster_health", EmptyDict) = EmptyDict

\* metrics["cluster_health"] = self._calculate_cluster_health(metrics)
HealthCalculated ==
    /\ Aggregating
    /\ ~PerformanceCheckRaises(local_metrics.performance_metrics)
    /\ local_metrics' = [local_metrics EXCEPT
                             !.cluster_health =
                                 calculate_cluster_health(local_metrics)]
    /\ UNCHANGED <<monitoring, current_metrics, metrics_history, logs, tasks,
                   appended, last_call, last_error, emitted>>
    /\ UNCHANGED failover_vars

\* _identify_issues compares a null: the handler of _collect_metrics runs
HealthRaises ==
    /\ Aggregating
    /\ PerformanceCheckRaises(local_metrics.performance_metrics)
    /\ local_metrics' = With(local_metrics, "error", Str(NullComparisonMessage))
    /\ UNCHANGED <<monitoring, current_metrics, metrics_history, logs, tasks,
                   appended, last_call, last_error, emitted>>
    /\ UNCHANGED failover_vars

SnapshotNext ==
    \/ HealthCalculated
    \/ HealthRaises

SnapshotSpec == SnapshotInit /\ [][SnapshotNext]_vars

----------------------------------------------------------------------------
(* monitoring.py: the readers of the monitor *)

\* the largest limit a reader is called with
MaxLimit == 3

\* seq[-limit:] for a limit that is not negative: -0 is 0, the whole list
LastSlice(seq, limit) ==
    IF limit = 0 \/ limit >= Len(seq)
    THEN seq
    ELSE SubSeq(seq, Len(seq) - limit + 1, Len(seq))

\* the reader's answers; the copy of a snapshot equals the snapshot
current_metrics_copy ==
    IF current_metrics # EmptyDict THEN current_metrics ELSE EmptyDict

history_slice(limit) ==
    IF metrics_history # <<>> THEN LastSlice(metrics_history, limit) ELSE <<>>

logs_slice(limit) == IF logs # <<>> THEN LastSlice(logs, limit) ELSE <<>>

get_current_metrics ==
    /\ last_call' = [name |-> "get_current_metrics",
                     returned |-> current_metrics_copy]
    /\ UNCHANGED <<monitoring, current_metrics, metrics_history, logs, tasks,
                   appended, last_error, emitted, local_metrics>>
    /\ UNCHANGED failover_vars

get_metrics_history ==
    /\ \E limit \in 0..MaxLimit :
          last_call' = [name |-> "get_metrics_history", limit |-> limit,
                        returned |-> history_slice(limit)]
    /\ UNCHANGED <<monitoring, current_metrics, metrics_history, logs, tasks,
                   appended, last_error, emitted, local_metrics>>
    /\ UNCHANGED failover_vars

get_recent_logs ==
    /\ \E limit \in 0..MaxLimit :
          last_call' = [name |-> "get_recent_logs", limit |-> limit,
                        returned |-> logs_slice(limit)]
    /\ UNCHANGED <<monitoring, current_metrics, metrics_history, logs, tasks,
                   appended, last_error, emitted, local_metrics>>
    /\ UNCHANGED failover_vars

\* a monitor that has been started: its loop task is about to run for the
\* first time, or is asleep after a first cycle that found nothing wrong
StartedInit ==
    /\ FailoverInit
    /\ monitoring = TRUE
    /\ \/ /\ tasks = [t \in TaskIds |-> IF t = 1 THEN "created" ELSE "none"]
          /\ current_metrics = EmptyDict
          /\ metrics_history = <<>>
       \/ /\ tasks = [t \in TaskIds |-> IF t = 1 THEN "sleep 5" ELSE "none"]
          /\ current_metrics = Collected[HealthyStatus].metrics
          /\ metrics_history = <<Collected[HealthyStatus].metrics>>
    /\ logs = <<>>
    /\ appended = 0
    /\ last_call = [name |-> "start_monitoring", was_monitoring |-> FALSE]
    /\ last_error = None
    /\ emitted = <<>>
    /\ local_metrics = EmptyDict

\* the loop runs by itself and the monitor is read between its steps
ReaderNext ==
    \/ \E t \in TaskIds : TaskStart(t)
    \/ LongRunNext
    \/ get_current_metrics
    \/ get_metrics_history
    \/ get_recent_logs

ReaderSpec == StartedInit /\ [][ReaderNext]_vars

----------------------------------------------------------------------------
(* monitoring.py: the loop on a cluster under load *)

\* total and allocated memory around the two thresholds, and no memory at all
MemoryLoads == {<<100, 85>>, <<100, 86>>, <<100, 95>>, <<100, 96>>, <<0, 0>>}

\* pending applications around their threshold
PendingLoads == {10, 11}

\* a healthy cluster whose active ResourceManager reports the given load
LoadStatuses ==
    {StatusWith(get_status("active", "standby"),
                get_resourcemanager_status(
                    "active", "standby",
                    ClusterMetrics(Num(memory[1]), Num(memory[2]),
                                   Num(pending), Num(1)))) :
        memory \in MemoryLoads, pending \in PendingLoads}

CollectReturnsLoad(t) ==
    /\ tasks[t] = "collecting"
    /\ \E cs \in LoadStatuses :
          Cycle(t, collect_metrics(cs), collect_metrics_error(cs))

LoadNext ==
    \/ \E t \in TaskIds : TaskStart(t)
    \/ \E t \in TaskIds : CollectReturnsLoad(t)
    \/ \E t \in TaskIds : Sleep5Elapsed(t)

LoadSpec == StartedInit /\ [][LoadNext]_vars

----------------------------------------------------------------------------
(* failover.py and monitoring.py side by side *)

\* at most this many monitoring cycles take place next to the workflows
MaxSharedCycles == 1

\* a step of the monitoring loop while workflows are called
LoopStep ==
    /\ appended < MaxSharedCycles
    /\ \E t \in TaskIds :
          \/ Sleep5Elapsed(t)
          \/ CollectReturns(t)
          \/ CollectRaises(t)

\* the workflows of a FailoverManager and the loop of a ClusterMonitor that
\* were built on the same HadoopClient
SharedNext ==
    \/ Next
    \/ LoopStep

SharedSpec == StartedInit /\ [][SharedNext]_vars

----------------------------------------------------------------------------
(* Vocabulary of the properties *)

Returned == pc = "returned"

Steps == failover_result.steps

LastStep == Steps[Len(Steps)]

Count(seq, e) == Cardinality({i \in DOMAIN seq : seq[i] = e})

\* the report of the slot with the given name in a status
SlotReport(service, st, slot) ==
    IF slot = ActiveSlot(service) THEN st.active ELSE st.standby

\* the slots that reported active / not active when step 1 probed them
HeldActive(service, step1) ==
    {slot \in {ActiveSlot(service), StandbySlot(service)} :
        IF slot = ActiveSlot(service)
        THEN step1.data.active_status.is_active
        ELSE step1.data.standby_status.is_active}

HeldStandby(service, step1) ==
    {ActiveSlot(service), StandbySlot(service)} \ HeldActive(service, step1)

NoActiveFound ==
    /\ Len(Steps) >= 1
    /\ Steps[1].step = "check_status"
    /\ Steps[1].error = Str(<<"No active ", ServiceName(svc), " found">>)

----------------------------------------------------------------------------
(* C1: a returned result has success = true exactly when the verify step   *)
(* was reached and succeeded, which is exactly when every recorded step    *)
(* succeeded.                                                              *)
C1_SuccessIffVerified ==
    Returned =>
        /\ failover_result.success <=>
              \E i \in DOMAIN Steps :
                  Steps[i].step = "verify_failover" /\ Steps[i].success
        /\ failover_result.success <=>
              \A i \in DOMAIN Steps : Steps[i].success

C1_Witness ==
    /\ Returned
    /\ failover_result.success
    /\ Len(Steps) = 3

(* C2: whatever the probes answer, and also when a probe raises in step 1  *)
(* or in a verification attempt, no exception leaves the workflow and the  *)
(* caller gets a result with type, success, steps and error.               *)
C2_NeverRaises ==
    /\ pc # "raised"
    /\ escaped = None
    /\ Returned =>
          /\ DOMAIN failover_result = {"type", "success", "steps", "error"}
          /\ failover_result.type = ResultType(svc)
          /\ failover_result.success \in BOOLEAN
          /\ failover_result.error.none \in BOOLEAN

C2_Witness ==
    /\ Returned
    /\ Len(Steps) = 2
    /\ Steps[1].step = "check_status"
    /\ Steps[1].error = Str(<<"connection refused">>)
    /\ Steps[2].step = "error"

(* C3 as stated: when step 1 fails because neither slot reports active,    *)
(* the result has success = false, exactly one recorded step and a         *)
(* non-empty error.                                                        *)
C3_OneStepRecorded ==
    (Returned /\ NoActiveFound) =>
        /\ ~failover_result.success
        /\ Len(Steps) = 1
        /\ ~failover_result.error.none
        /\ failover_result.error.text # <<>>

(* C3 amended: when step 1 fails because neither slot reports active, the  *)
(* result has success = false, a non-empty error, and exactly two recorded *)
(* steps: the failed check_status step followed by an error-kind step.     *)
C3_CheckStepThenErrorStep ==
    (Returned /\ NoActiveFound) =>
        /\ ~failover_result.success
        /\ Len(Steps) = 2
        /\ ~Steps[1].success
        /\ Steps[2].step = "error"
        /\ ~failover_result.error.none
        /\ failover_result.error.text # <<>>

C3_Witness ==
    /\ Returned
    /\ NoActiveFound
    /\ Count(events, "command") = 0

(* C4: when none of the 6 verification polls meets the switch condition,   *)
(* the result has success = false, nothing is raised, and the verify step  *)
(* is an unsuccessful step whose data holds the number of attempts used    *)
(* and the final observed status.                                          *)
C4_ExhaustedRecordsAttempts ==
    (Returned /\ Len(polls) = max_attempts /\ ~polls[max_attempts]) =>
        /\ ~failover_result.success
        /\ escaped = None
        /\ LastStep.step = "verify_failover"
        /\ ~LastStep.success
        /\ "final_status" \in DOMAIN LastStep.data
        /\ LastStep.data.final_status = nn_status
        /\ "attempts" \in DOMAIN LastStep.data
        /\ LastStep.data.attempts = max_attempts

(* C5: when the switch condition is first met on the k-th verification     *)
(* poll, the workflow has returned success = true, the verify step records *)
(* attempts = k, exactly k verification probes were issued and the last    *)
(* collaborator call is that k-th probe.                                   *)
C5_AttemptsIsFirstMatch ==
    /\ \A i \in 1..(Len(polls) - 1) : ~polls[i]
    /\ (Len(polls) >= 1 /\ polls[Len(polls)]) =>
          /\ Returned
          /\ failover_result.success
          /\ LastStep.step = "verify_failover"
          /\ LastStep.data.attempts = Len(polls)
          /\ Count(events, "verify_probe") = Len(polls)
          /\ events[Len(events)] = "verify_probe"

C5_Witness ==
    /\ Returned
    /\ Len(polls) = 3
    /\ polls[3]
    /\ LastStep.data.attempts = 3

(* C6: in both orientations (exactly one slot reported active at step 1,   *)
(* either one), a verification poll is judged successful exactly when the  *)
(* slot that was standby at step 1 now reports active and the slot that    *)
(* was active at step 1 does not.                                          *)
C6_SwitchCondition ==
    (/\ Len(polls) >= 1
     /\ Cardinality(HeldActive(svc, Steps[1])) = 1) =>
        polls[Len(polls)] =
            (/\ \A slot \in HeldStandby(svc, Steps[1]) :
                    SlotReport(svc, nn_status, slot).is_active
             /\ \A slot \in HeldActive(svc, Steps[1]) :
                    ~SlotReport(svc, nn_status, slot).is_active)

C6_Witness ==
    /\ Len(polls) >= 1
    /\ HeldActive(svc, Steps[1]) = {StandbySlot(svc)}
    /\ polls[Len(polls)]

(* C7: step 1 succeeds only when exactly one of the two slots reports      *)
(* active; when it fails, no failover command is issued.                   *)
C7_ExactlyOneActive ==
    (Len(Steps) >= 1 /\ Steps[1].step = "check_status") =>
        /\ Steps[1].success =>
              Cardinality(HeldActive(svc, Steps[1])) = 1
        /\ ~Steps[1].success => Count(events, "command") = 0

(* C8: when the workflow returns success = true, the final status of the   *)
(* verify step shows exactly one slot reporting active, and that slot was  *)
(* standby (did not report active) when the workflow started.              *)
C8_NewActiveWasStandby ==
    (Returned /\ failover_result.success) =>
        \E slot \in {ActiveSlot(svc), StandbySlot(svc)} :
            /\ SlotReport(svc, LastStep.data.final_status, slot).is_active
            /\ \A other \in {ActiveSlot(svc), StandbySlot(svc)} \ {slot} :
                  ~SlotReport(svc, LastStep.data.final_status, other).is_active
            /\ slot \in HeldStandby(svc, Steps[1])

(* C9: the steps are recorded in the order check_status, execute_failover, *)
(* verify_failover; a failed step is followed by nothing but the error     *)
(* step; the command is issued only after a successful step 1 and at most  *)
(* once; verification delays and probes happen only after a successful     *)
(* step 2.                                                                 *)
StepOrder == <<"check_status", "execute_failover", "verify_failover">>

C9_OrderAndShortCircuit ==
    /\ \A i \in DOMAIN Steps :
          /\ Steps[i].step # "error" => (i <= 3 /\ Steps[i].step = StepOrder[i])
          /\ Steps[i].step = "error" => i = Len(Steps)
          /\ (~Steps[i].success /\ Steps[i].step # "error") =>
                \A j \in DOMAIN Steps : j > i => Steps[j].step = "error"
    /\ Count(events, "command") <= 1
    /\ Count(events, "command") = 1 =>
          (Len(Steps) >= 1 /\ Steps[1].step = "check_status" /\ Steps[1].success)
    /\ (Count(events, "verify_probe") > 0 \/ Count(events, "sleep 5") > 0) =>
          /\ Len(Steps) >= 2
          /\ Steps[2].step = "execute_failover"
          /\ Steps[2].success

C9_Witness ==
    /\ Returned
    /\ Len(Steps) = 3
    /\ Steps[2].step = "execute_failover"
    /\ ~Steps[2].success
    /\ Count(events, "command") = 1
    /\ Count(events, "verify_probe") = 0

(* C10 as stated: when a step fails and aborts the workflow, the top-level *)
(* error contains the error message of the failing step, for a failing     *)
(* execute step and for a failing check-status step alike.                 *)
C10_ErrorEchoesFailingStep ==
    (Returned /\ LastStep.step = "error") =>
        Contains(failover_result.error.text,
                 Steps[Len(Steps) - 1].error.text)

(* C10 amended: when the execute step fails and aborts the workflow, the   *)
(* top-level error contains that step's error message; when the            *)
(* check-status step fails, the top-level error is the fixed text "Failed  *)
(* to get initial <service> status", whatever the step's message.          *)
C10_ExecuteErrorEchoed ==
    (Returned /\ LastStep.step = "error") =>
        /\ ~failover_result.error.none
        /\ Steps[Len(Steps) - 1].step = "execute_failover" =>
              Contains(failover_result.error.text,
                       Steps[Len(Steps) - 1].error.text)
        /\ Steps[Len(Steps) - 1].step = "check_status" =>
              failover_result.error.text = InitialStatusMessage(svc)

C10_Witness ==
    /\ Returned
    /\ LastStep.step = "error"
    /\ Steps[Len(Steps) - 1].step = "execute_failover"
    /\ Steps[Len(Steps) - 1].error = Str(<<"connection refused">>)


\* a collaborator's exception was recorded by step i's own handler
RaisedIn(i) ==
    /\ ~Steps[i].success
    /\ \/ /\ Steps[i].step = "check_status"
          /\ Steps[i].error # Str(<<"No active ", ServiceName(svc), " found">>)
       \/ Steps[i].step = "execute_failover"
       \/ /\ Steps[i].step = "verify_failover"
          /\ DOMAIN Steps[i].data = {}

(* C11: every returned result with success = false has a non-empty         *)
(* top-level error, whichever step the workflow stopped at.                *)
C11_FailureHasError ==
    (Returned /\ ~failover_result.success) =>
        /\ ~failover_result.error.none
        /\ failover_result.error.text # <<>>

(* C12: whenever an exception was raised in the check-status probe, in the *)
(* execute step or in a verification probe, the returned steps end with an *)
(* error-kind step whose message carries that exception's message.         *)
C12_ErrorStepCarriesException ==
    Returned =>
        \A i \in DOMAIN Steps :
            RaisedIn(i) =>
                /\ LastStep.step = "error"
                /\ Contains(LastStep.error.text, Steps[i].error.text)

(* C13: the verification phase terminates.  At most 6 status probes are    *)
(* issued, each right after a 5 s delay, the first delay right after the   *)
(* 10 s settle delay; the workflow has returned once a poll succeeded or   *)
(* the 6th poll failed; and a workflow that is in the verification phase   *)
(* eventually returns.                                                     *)
C13_BoundedPolling ==
    /\ Count(events, "verify_probe") <= max_attempts
    /\ \A i \in DOMAIN events :
          events[i] = "verify_probe" => (i > 1 /\ events[i - 1] = "sleep 5")
    /\ \A i \in DOMAIN events :
          events[i] = "sleep 5" =>
              /\ i > 1
              /\ events[i - 1] \in {"sleep 10", "verify_probe"}
              /\ \E j \in 1..(i - 1) : events[j] = "sleep 10"
    /\ (Len(polls) >= 1 /\ (polls[Len(polls)] \/ Len(polls) = max_attempts)) =>
          Returned
    /\ pc \in {"verify_sleep", "verify_probe"} => Len(polls) < max_attempts

C13_VerificationTerminates ==
    /\ []C13_BoundedPolling
    /\ (pc \in {"settle", "verify_sleep", "verify_probe"}) ~> Returned

C13_Witness ==
    /\ Returned
    /\ Len(polls) = max_attempts
    /\ ~polls[max_attempts]
    /\ Count(events, "verify_probe") = max_attempts

(* C14: when the workflow is cancelled while it waits in the verification  *)
(* phase, no further probe is issued and the caller receives a result      *)
(* marked incomplete; no cancellation leaves the workflow.                 *)
C14_CancelReturnsIncomplete ==
    Count(events, "cancel") > 0 =>
        /\ events[Len(events)] = "cancel"
        /\ Returned
        /\ escaped = None
        /\ \/ "incomplete" \in DOMAIN failover_result
           \/ \E i \in DOMAIN Steps : Steps[i].step = "incomplete"


----------------------------------------------------------------------------
(* Vocabulary of the monitor's properties *)

\* the tasks that are inside the loop: in a cycle or waiting for the next
InLoop == {t \in TaskIds : tasks[t] \in {"collecting", "sleep 5", "sleep 10"}}

\* task t resumes from its probe and finishes the cycle
FinishesCycle(t) == tasks[t] = "collecting" /\ tasks'[t] # "collecting"

(* C15: a call of start_monitoring made while the monitor is running       *)
(* creates no loop task and leaves the flag, the history, the logs and the *)
(* current snapshot as they are.                                           *)
C15_StartWhileRunningIsNoOp ==
    [][(/\ last_call' # last_call
        /\ last_call'.name = "start_monitoring"
        /\ last_call'.was_monitoring)
       => UNCHANGED <<monitoring, tasks, metrics_history, logs,
                      current_metrics>>]_vars

C15_Witness ==
    /\ last_call.name = "start_monitoring"
    /\ last_call.was_monitoring
    /\ Len(metrics_history) >= 1
    /\ Cardinality(InLoop) = 1

(* C16: whatever the interleaving of start_monitoring, stop_monitoring and *)
(* the loop's steps, at most one monitoring loop is running.               *)
C16_AtMostOneLoop == Cardinality(InLoop) <= 1

(* C17: once stop_monitoring has been called and start_monitoring has not  *)
(* been called again, at most one further snapshot is appended.            *)
C17_AtMostOneSnapshotAfterStop ==
    last_call.name = "stop_monitoring" =>
        appended - last_call.appended <= 1

C19_BackoffAfterError ==
    [][\A t \in TaskIds :
          (FinishesCycle(t) /\ ~last_error'.none) => tasks'[t] = "sleep 10"]_vars

(* C20: when an error occurred while a cycle collected its metrics, the    *)
(* snapshot carries the error message, it becomes the current snapshot and *)
(* the newest entry of the history, and the loop waits before it begins    *)
(* another cycle.                                                          *)
C20_ErrorCycleCompletes ==
    [][\A t \in TaskIds :
          (FinishesCycle(t) /\ ~last_error'.none) =>
              /\ "error" \in DOMAIN current_metrics'
              /\ current_metrics'.error = last_error'
              /\ metrics_history' # <<>>
              /\ metrics_history'[Len(metrics_history')] = current_metrics'
              /\ Len(metrics_history) < max_history_size =>
                    metrics_history' = Append(metrics_history, current_metrics')
              /\ appended' = appended + 1
              /\ tasks'[t] \in {"sleep 5", "sleep 10"}]_vars

C20_Witness ==
    /\ Len(metrics_history) >= 2
    /\ last_error = Str(<<"connection refused">>)
    /\ "error" \in DOMAIN current_metrics
    /\ metrics_history[Len(metrics_history)] = current_metrics


\* the newest capacity entries of a buffer, the oldest ones dropped
NewestOf(all, capacity) ==
    LET dropped == IF Len(all) > capacity THEN Len(all) - capacity ELSE 0
    IN  [i \in 1..(Len(all) - dropped) |-> all[i + dropped]]

(* C21: the history never holds more than max_history_size snapshots, and *)
(* every append leaves the newest ones in insertion order: the snapshot   *)
(* appended is the last, and the oldest is dropped only when the history  *)
(* was full.                                                              *)
C21_HistoryIsBoundedFifo ==
    /\ [](Len(metrics_history) <= max_history_size)
    /\ [][IF appended' = appended + 1
          THEN metrics_history' =
                   NewestOf(Append(metrics_history, current_metrics'),
                            max_history_size)
          ELSE metrics_history' = metrics_history]_vars

C21_Witness ==
    /\ Len(metrics_history) = max_history_size
    /\ appended >= 2
    /\ metrics_history[max_history_size] = current_metrics
    /\ metrics_history[max_history_size - 1] # current_metrics

(* C22: the log never holds more than max_logs_size entries, and every    *)
(* event check leaves the newest ones in emission order, however many     *)
(* entries it emits.                                                      *)
C22_LogIsBoundedFifo ==
    /\ [](Len(logs) <= max_logs_size)
    /\ [][IF appended' = appended + 1
          THEN logs' = NewestOf(logs \o emitted', max_logs_size)
          ELSE logs' = logs]_vars

C22_Witness ==
    /\ Len(logs) = max_logs_size
    /\ appended >= 1
    /\ Len(emitted) >= 3
    /\ logs[max_logs_size] = emitted[Len(emitted)]

----------------------------------------------------------------------------
(* The health record of a gathered snapshot *)

Health == Get(local_metrics, "cluster_health", EmptyDict)

\* the aggregator has returned a health record for the gathered snapshot
Aggregated == Health # EmptyDict

HealthyWithinTotal ==
    /\ local_metrics.node_metrics.healthy_datanodes
           <= local_metrics.node_metrics.total_datanodes
    /\ local_metrics.node_metrics.healthy_nodemanagers
           <= local_metrics.node_metrics.total_nodemanagers

(* C23: for every gathered snapshot whose healthy node counts do not exceed *)
(* the total node counts, the score the aggregator computes is an integer   *)
(* between 0 and 100.                                                       *)
C23_ScoreWithinRange ==
    (Aggregated /\ HealthyWithinTotal) => Health.score \in 0..100

\* every share is full: the upper end of the range is reached
C23_Witness ==
    /\ Aggregated
    /\ HealthyWithinTotal
    /\ local_metrics.node_metrics.healthy_datanodes = MaxNodes
    /\ Health.score = 100

(* C24: the status category depends on the score alone, with inclusive      *)
(* lower bounds: excellent from 90, good from 75, warning from 50, critical *)
(* below 50.                                                                *)
C24_StatusFollowsScore ==
    Aggregated =>
        Health.status = (IF Health.score >= 90 THEN "excellent"
                         ELSE IF Health.score >= 75 THEN "good"
                         ELSE IF Health.score >= 50 THEN "warning"
                         ELSE "critical")

\* a score on a boundary
C24_Witness ==
    /\ Aggregated
    /\ Health.score = 75
    /\ Health.status = "good"

\* 15 for an active slot that is healthy and active, 10 for a standby slot
\* that is healthy and standby
HaShare(m) ==
    (IF m.active_healthy /\ m.active_state = "active" THEN 15 ELSE 0)
    + (IF m.standby_healthy /\ m.standby_state = "standby" THEN 10 ELSE 0)

\* floor(15 * healthy / total); nothing when the class has no node
NodeShare(healthy, total) == IF total = 0 THEN 0 ELSE (15 * healthy) \div total

(* C25: the score is the sum of the HA shares of the NameNode and of the    *)
(* ResourceManager (15 for a healthy active slot in state active, 10 for a  *)
(* healthy standby slot in state standby), of floor(15 * healthy / total)   *)
(* for the DataNodes and for the NodeManagers, and of 10 for each of the    *)
(* History Server and Hive that is healthy.                                 *)
C25_ScoreIsSumOfShares ==
    Aggregated =>
        Health.score =
            HaShare(local_metrics.namenode_metrics)
            + HaShare(local_metrics.resourcemanager_metrics)
            + NodeShare(local_metrics.node_metrics.healthy_datanodes,
                        local_metrics.node_metrics.total_datanodes)
            + NodeShare(local_metrics.node_metrics.healthy_nodemanagers,
                        local_metrics.node_metrics.total_nodemanagers)
            + (IF local_metrics.service_metrics.historyserver_healthy
               THEN 10 ELSE 0)
            + (IF local_metrics.service_metrics.hive_healthy THEN 10 ELSE 0)

\* a healthy standby NameNode that reports active earns nothing, and half of
\* the DataNodes earn 7 points
C25_Witness ==
    /\ Aggregated
    /\ local_metrics.namenode_metrics.standby_healthy
    /\ local_metrics.namenode_metrics.standby_state = "active"
    /\ local_metrics.node_metrics.total_datanodes = 2
    /\ local_metrics.node_metrics.healthy_datanodes = 1
    /\ Health.score = 15 + 25 + 7 + 15 + 10

\* the HA slots that are unhealthy, by the message that names them
UnhealthySlots ==
    {<<prefix, name, " is unhealthy">> :
        prefix \in {"Active ", "Standby "},
        name \in {"NameNode", "ResourceManager"}}

SlotUnhealthy(issue) ==
    LET m == IF issue[2] = "NameNode"
             THEN local_metrics.namenode_metrics
             ELSE local_metrics.resourcemanager_metrics
    IN  IF issue[1] = "Active " THEN ~m.active_healthy ELSE ~m.standby_healthy

(* C26: whenever an HA slot (active or standby, NameNode or                 *)
(* ResourceManager) is unhealthy, the snapshot that leaves the aggregator    *)
(* has a score below 100 and an issue list with the message naming that     *)
(* slot, whatever the other inputs are.                                     *)
C26_UnhealthySlotIsReported ==
    \A issue \in UnhealthySlots :
        (~Aggregating /\ local_metrics # EmptyDict /\ SlotUnhealthy(issue)) =>
            /\ Aggregated
            /\ Health.score < 100
            /\ \E i \in DOMAIN Health.issues : Health.issues[i] = issue

----------------------------------------------------------------------------
(* The snapshots the monitor keeps and the entries of one cycle *)

\* the snapshots a reader of the monitor can obtain
KeptSnapshots ==
    Range(metrics_history)
        \cup (IF current_metrics # EmptyDict THEN {current_metrics} ELSE {})

HasHealthRecord(m) ==
    LET h == Get(m, "cluster_health", EmptyDict) IN
    /\ {"score", "status"} \subseteq DOMAIN h
    /\ h.score \in 0..100
    /\ h.status \in {"excellent", "good", "warning", "critical"}

(* C27: every snapshot stored in the history or held as the current         *)
(* snapshot carries a cluster health record whose score is within 0..100    *)
(* and whose status is excellent, good, warning or critical; and a stored   *)
(* snapshot is never changed afterwards: a step leaves the history as it is *)
(* or appends one snapshot, dropping the oldest ones only.                  *)
C27_SnapshotsCarryHealth ==
    /\ [](\A m \in KeptSnapshots : HasHealthRecord(m))
    /\ [][\/ metrics_history' = metrics_history
          \/ \E dropped \in 0..1 :
                /\ Len(metrics_history') = Len(metrics_history) + 1 - dropped
                /\ \A i \in 1..(Len(metrics_history') - 1) :
                      metrics_history'[i] = metrics_history[i + dropped]]_vars

\* the newest two snapshots of the history after a cycle
Newest(history) == history[Len(history)]

Preceding(history) == history[Len(history) - 1]

StateFields ==
    {"namenode_metrics", "resourcemanager_metrics"}
        \X {"active_state", "standby_state"}

StateOf(m, field) == Get(Get(m, field[1], EmptyDict), field[2], "None")

StatusOf(m) == Get(Get(m, "cluster_health", EmptyDict), "status", "None")

IssuesOf(m) == Range(Get(Get(m, "cluster_health", EmptyDict), "issues", <<>>))

\* the entries among entries whose message has one of the given tokens
EntriesWith(entries, tokens) ==
    {i \in DOMAIN entries :
        \E j \in DOMAIN entries[i].message : entries[i].message[j] \in tokens}

(* C28: in a cycle whose snapshot equals the preceding one the event check  *)
(* appends no log entry; and when the two differ in a role state, in the    *)
(* status category or in the issue set, it appends at least one entry for   *)
(* each of these categories that differs.                                   *)
C28_EntriesFollowDifferences ==
    [][(appended' = appended + 1 /\ Len(metrics_history') >= 2) =>
          LET m == Newest(metrics_history')
              previous == Preceding(metrics_history')
          IN  /\ m = previous => (emitted' = <<>> /\ logs' = logs)
              /\ (\E f \in StateFields : StateOf(m, f) # StateOf(previous, f))
                    => EntriesWith(emitted', {" state changed: "}) # {}
              /\ StatusOf(m) # StatusOf(previous)
                    => EntriesWith(emitted',
                                   {"Cluster health status changed: "}) # {}
              /\ IssuesOf(m) # IssuesOf(previous)
                    => EntriesWith(emitted', {"New issue detected: ",
                                              "Issue resolved: "}) # {}]_vars

\* the memory use of a snapshot is above the critical threshold
MemoryCritical(m) ==
    LET perf == Get(m, "performance_metrics", EmptyDict) IN
    /\ "total_memory" \in DOMAIN perf
    /\ ~perf.total_memory.null
    /\ perf.total_memory.n > 0
    /\ perf.allocated_memory.n * 100 > 95 * perf.total_memory.n

(* C29: the event check acts only when the history holds at least two       *)
(* snapshots: a cycle that leaves fewer than two snapshots in the history,  *)
(* such as the first cycle of a fresh monitor, appends no log entry         *)
(* whatever its snapshot contains.                                          *)
C29_NoEventsOnFirstSnapshot ==
    [][(appended' = appended + 1 /\ Len(metrics_history') < 2) =>
          (logs' = logs /\ emitted' = <<>>)]_vars

\* the first snapshot is above the performance thresholds and nothing is logged
C29_Witness ==
    /\ appended = 1
    /\ Len(metrics_history) = 1
    /\ MemoryCritical(current_metrics)
    /\ emitted = <<>>
    /\ logs = <<>>

(* C30: the event check of one cycle emits at most one entry per detected   *)
(* condition: no two entries are the same, at most one entry per role-state *)
(* field, at most one status-change entry, at most one entry about the      *)
(* memory use and at most one about the pending applications.               *)
C30_OneEntryPerCondition ==
    /\ \A i, j \in DOMAIN emitted : emitted[i] = emitted[j] => i = j
    /\ Cardinality(EntriesWith(emitted, {" state changed: "}))
           <= Cardinality(StateFields)
    /\ Cardinality(EntriesWith(emitted,
                               {"Cluster health status changed: "})) <= 1
    /\ Cardinality(EntriesWith(emitted, {"High memory usage: ",
                                         "Critical memory usage: "})) <= 1
    /\ Cardinality(EntriesWith(emitted,
                               {" applications are pending",
                                "High number of pending applications: "})) <= 1

----------------------------------------------------------------------------
(* What the readers return *)

\* the latest step was a call of the named reader
JustRead(name) == last_call' # last_call /\ last_call'.name = name

\* the min(limit, length) newest elements of a buffer, the newest last
MostRecent(seq, limit) ==
    LET n == IF limit < Len(seq) THEN limit ELSE Len(seq) IN
    [i \in 1..n |-> seq[Len(seq) - n + i]]

(* C31: for every limit that is not negative, get_metrics_history(limit)    *)
(* and get_recent_logs(limit) return the min(limit, buffer length) newest   *)
(* elements of their buffer in insertion order, the newest last, and never  *)
(* more than limit elements; a limit of 0 gives an empty sequence.          *)
C31_ReadersReturnNewest ==
    [][/\ JustRead("get_metrics_history") =>
             /\ last_call'.returned
                    = MostRecent(metrics_history, last_call'.limit)
             /\ Len(last_call'.returned) <= last_call'.limit
       /\ JustRead("get_recent_logs") =>
             /\ last_call'.returned = MostRecent(logs, last_call'.limit)
             /\ Len(last_call'.returned) <= last_call'.limit]_vars

\* the snapshots _collect_metrics may return
FinishedSnapshots ==
    {Collected[cs].metrics : cs \in ClusterStatuses}
        \cup {collect_metrics_raised(msg) : msg \in ExcMessages}

\* the log ends with the entries of the latest event check
LogHasEmitted ==
    /\ Len(emitted) <= Len(logs)
    /\ \A i \in DOMAIN emitted :
          logs[Len(logs) - Len(emitted) + i] = emitted[i]

(* C32: a reader called while the loop is suspended sees the state before  *)
(* or after a whole cycle: the current snapshot it gets is one that        *)
(* _collect_metrics has finished, it is the newest snapshot of the history, *)
(* and the entries its event check produced are at the end of the log; the *)
(* history and the log it gets are those same buffers.                     *)
C32_ReadersSeeWholeCycles ==
    [][/\ (JustRead("get_current_metrics")
              /\ last_call'.returned # EmptyDict) =>
             /\ last_call'.returned \in FinishedSnapshots
             /\ metrics_history # <<>>
             /\ last_call'.returned = metrics_history[Len(metrics_history)]
             /\ LogHasEmitted
       /\ JustRead("get_current_metrics") =>
             (last_call'.returned = EmptyDict <=> metrics_history = <<>>)
       /\ (JustRead("get_metrics_history") /\ last_call'.limit > 0) =>
             /\ \A i \in DOMAIN last_call'.returned :
                   last_call'.returned[i] \in FinishedSnapshots
             /\ last_call'.returned # <<>> =>
                   last_call'.returned[Len(last_call'.returned)]
                       = current_metrics
       /\ (JustRead("get_recent_logs") /\ last_call'.limit >= Len(emitted)
              /\ last_call'.limit > 0) =>
             \A i \in DOMAIN emitted :
                 last_call'.returned[Len(last_call'.returned)
                                        - Len(emitted) + i] = emitted[i]]_vars

\* the current snapshot is read after a cycle whose event check logged
C32_Witness ==
    /\ last_call.name = "get_current_metrics"
    /\ appended >= 1
    /\ last_call.returned = current_metrics
    /\ current_metrics = metrics_history[Len(metrics_history)]
    /\ emitted # <<>>
    /\ LogHasEmitted

(* C39: whenever the monitoring loop is suspended and the history is not   *)
(* empty, the current snapshot is the last element of the history.         *)
C39_CurrentIsLastOfHistory ==
    metrics_history # <<>> =>
        current_metrics = metrics_history[Len(metrics_history)]

\* two cycles have stored different snapshots
C39_Witness ==
    /\ appended >= 2
    /\ Len(metrics_history) >= 2
    /\ metrics_history[Len(metrics_history) - 1] # current_metrics
    /\ current_metrics = metrics_history[Len(metrics_history)]
    /\ \E t \in TaskIds : tasks[t] \in {"sleep 5", "sleep 10"}

----------------------------------------------------------------------------
(* The records of the probes *)

\* the statuses a workflow holds: the latest poll and those kept in steps
HeldStatuses ==
    (IF nn_status = Unbound THEN {} ELSE {nn_status})
        \cup {Steps[i].data.final_status :
                 i \in {j \in DOMAIN Steps :
                           /\ "data" \in DOMAIN Steps[j]
                           /\ "final_status" \in DOMAIN Steps[j].data}}

\* the records of single instances that a workflow holds
HeldRecords ==
    UNION {{st.active, st.standby} : st \in HeldStatuses}
        \cup UNION {{Steps[i].data.active_status, Steps[i].data.standby_status} :
                       i \in {j \in DOMAIN Steps :
                                 /\ "data" \in DOMAIN Steps[j]
                                 /\ "active_status" \in DOMAIN Steps[j].data}}

\* is_active says what the reported state says, and a record of a failure
\* is unhealthy, not active and has an error
WellFormedRecord(r) ==
    /\ r.is_active <=> r.ha_state = "active"
    /\ r.healthy \in BOOLEAN
    /\ ~r.healthy =>
          /\ ~r.is_active
          /\ r.ha_state # "active"
          /\ "error" \in DOMAIN r
          /\ ~r.error.none

(* C33: the probe of one instance always returns a record; when the        *)
(* instance cannot be reached the record has healthy = false, is_active =  *)
(* false, a state other than active and an error; and in every record      *)
(* is_active holds exactly when the reported state is active.  This is so  *)
(* for the records the workflows hold and for every record the             *)
(* ResourceManager probe builds.                                           *)
C33_ProbeRecordsWellFormed ==
    /\ \A r \in HeldRecords : WellFormedRecord(r)
    /\ \A role \in {"active", "standby"}, answer \in Answers,
          doc \in MetricsDocuments :
          /\ WellFormedRecord(check_resourcemanager_health(role, answer, doc))
          /\ check_resourcemanager_health(role, answer, doc).healthy
                <=> answer \in HaStates

\* step 1 found the active instance while the other one did not answer
C33_Witness ==
    /\ Returned
    /\ Steps[1].success
    /\ ~Steps[1].data.active_status.healthy
    /\ Steps[1].data.active_status.ha_state = "unreachable"
    /\ Steps[1].data.standby_status.is_active

----------------------------------------------------------------------------
(* The workflows and the monitor *)

\* the step belongs to a workflow
WorkflowStep == failover_vars' # failover_vars

(* C34: a failover workflow neither reads nor writes the state of the      *)
(* monitor: its steps leave the running flag, the current snapshot, the    *)
(* history and the log as they are, a step of the monitoring loop leaves   *)
(* the workflow as it is, and the result is successful exactly when the    *)
(* latest status the workflow polled itself shows the roles switched,      *)
(* whatever the monitor holds.                                             *)
C34_WorkflowLeavesMonitorAlone ==
    /\ [][WorkflowStep => UNCHANGED <<monitoring, current_metrics,
                                       metrics_history, logs, tasks>>]_vars
    /\ [][~WorkflowStep => UNCHANGED failover_vars]_vars
    /\ [](Returned =>
            (failover_result.success
                <=> (polls # <<>> /\ polls[Len(polls)]
                     /\ LastStep.step = "verify_failover"
                     /\ RolesSwitched(svc, current_active, nn_status))))

\* the NameNode roles were switched and verified live while the snapshot of
\* the monitor still shows the roles as they were
C34_Witness ==
    /\ Returned
    /\ failover_result.success
    /\ svc = "namenode"
    /\ monitoring
    /\ appended = 0
    /\ metrics_history # <<>>
    /\ current_metrics.namenode_metrics.active_state = "active"
    /\ nn_status.active.ha_state = "standby"
    /\ nn_status.standby.ha_state = "active"

----------------------------------------------------------------------------
(* The baseline and the order of the entries *)

(* C35: in every cycle whose event check runs, the entries are those of    *)
(* the comparison of the new snapshot with the snapshot the preceding      *)
(* cycle appended, which was the last of the history before this cycle;    *)
(* this is so when the history is full and the append drops its oldest     *)
(* snapshot.                                                               *)
C35_BaselineIsPrecedingSnapshot ==
    [][(appended' = appended + 1 /\ Len(metrics_history') >= 2) =>
          LET m == current_metrics'
              baseline == metrics_history[Len(metrics_history)]
          IN  \E new_order \in Orderings(NewIssues(m, baseline)),
                 resolved_order \in Orderings(ResolvedIssues(m, baseline)) :
                 emitted' = check_ha_state_changes(m, baseline)
                            \o check_health_changes(m, baseline,
                                                    new_order, resolved_order)
                            \o check_performance_issues(m)]_vars

\* a cycle on a full history found a role state changed
C35_Witness ==
    /\ Len(metrics_history) = max_history_size
    /\ appended >= 2
    /\ metrics_history[1] # metrics_history[max_history_size - 1]
    /\ EntriesWith(emitted, {" state changed: "}) # {}

\* the place of an entry in the order of the triggers
TriggerRank(entry) ==
    CASE entry.message[1] = "NameNode" -> 1
      [] entry.message[1] = "ResourceManager" -> 2
      [] entry.message[1] = "Cluster health status changed: " -> 3
      [] entry.message[1] = "New issue detected: " -> 4
      [] entry.message[1] = "Issue resolved: " -> 5
      [] OTHER -> 6

(* C36: the entries of one cycle are at the end of the log in the order of *)
(* their triggers: role-state changes first, the NameNode's before the     *)
(* ResourceManager's, then the status change, then the new issues, then    *)
(* the resolved issues, then the performance thresholds.                   *)
C36_EntriesInTriggerOrder ==
    /\ LogHasEmitted
    /\ \A i, j \in DOMAIN emitted :
          i < j => TriggerRank(emitted[i]) <= TriggerRank(emitted[j])

\* one cycle logged a role change, a new issue, a resolved issue and a
\* threshold
C36_Witness ==
    /\ LogHasEmitted
    /\ {1, 4, 5, 6} \subseteq {TriggerRank(emitted[i]) : i \in DOMAIN emitted}

----------------------------------------------------------------------------
(* The performance thresholds *)

\* the entries among entries whose message begins with the token
EntriesBeginning(entries, token) ==
    {i \in DOMAIN entries : entries[i].message[1] = token}

Levels(entries, token) ==
    {entries[i].level : i \in EntriesBeginning(entries, token)}

(* C37: the performance thresholds are tested on the current snapshot      *)
(* alone.  In every cycle whose event check runs: memory use above 95%     *)
(* gives exactly one error entry and no warning; above 85% and at most 95% *)
(* exactly one warning entry; otherwise, and when the total memory is 0,   *)
(* no memory entry; more than 10 pending applications give one warning     *)
(* entry, 10 or fewer none.  This is so in every cycle where the condition *)
(* holds, also when the preceding snapshot was the same.                   *)
C37_ThresholdsOnCurrentOnly ==
    [][(appended' = appended + 1 /\ Len(metrics_history') >= 2) =>
          LET perf == current_metrics'.performance_metrics
              total == perf.total_memory.n
              used == perf.allocated_memory.n * 100
              critical == EntriesBeginning(emitted', "Critical memory usage: ")
              high == EntriesBeginning(emitted', "High memory usage: ")
              backlog == EntriesBeginning(
                             emitted', "High number of pending applications: ")
          IN  /\ (total > 0 /\ used > 95 * total) =>
                    /\ Cardinality(critical) = 1
                    /\ Levels(emitted', "Critical memory usage: ") = {"error"}
                    /\ high = {}
              /\ (total > 0 /\ used > 85 * total /\ used <= 95 * total) =>
                    /\ Cardinality(high) = 1
                    /\ Levels(emitted', "High memory usage: ") = {"warning"}
                    /\ critical = {}
              /\ (total = 0 \/ used <= 85 * total) =>
                    (critical = {} /\ high = {})
              /\ IF perf.pending_apps.n > 10
                 THEN /\ Cardinality(backlog) = 1
                      /\ Levels(emitted',
                                "High number of pending applications: ")
                            = {"warning"}
                 ELSE backlog = {}]_vars

\* the same load in two cycles in a row is reported in the second one too
C37_Witness ==
    /\ appended >= 2
    /\ Len(metrics_history) >= 2
    /\ metrics_history[Len(metrics_history) - 1] = current_metrics
    /\ MemoryCritical(current_metrics)
    /\ current_metrics.performance_metrics.pending_apps.n > 10
    /\ Levels(emitted, "Critical memory usage: ") = {"error"}
    /\ Levels(emitted, "High number of pending applications: ") = {"warning"}

----------------------------------------------------------------------------
(* The shape of a result *)

StepNames == [i \in DOMAIN Steps |-> Steps[i].step]

(* C38: a returned result has the steps check_status, error; or            *)
(* check_status, execute_failover, error; or check_status,                 *)
(* execute_failover, verify_failover.  Its error is set exactly when its   *)
(* last step is an error step, and then success is false and the message   *)
(* of that step is the error of the result.                                *)
C38_ThreeShapes ==
    Returned =>
        /\ StepNames \in {<<"check_status", "error">>,
                          <<"check_status", "execute_failover", "error">>,
                          <<"check_status", "execute_failover",
                            "verify_failover">>}
        /\ ~failover_result.error.none <=> LastStep.step = "error"
        /\ LastStep.step = "error" =>
              /\ ~failover_result.success
              /\ LastStep.error = failover_result.error

\* the verification gave up: three steps, no error step and no error
C38_Witness ==
    /\ Returned
    /\ StepNames = <<"check_status", "execute_failover", "verify_failover">>
    /\ ~LastStep.success
    /\ ~failover_result.success
    /\ failover_result.error.none
    /\ Len(polls) = max_attempts

----------------------------------------------------------------------------
(* Starting and stopping the monitor *)

\* the step is a call of stop_monitoring / of either of the two
StopStep ==
    /\ last_call'.name = "stop_monitoring"
    /\ appended' = appended
    /\ tasks' = tasks

StartOrStopStep ==
    \/ StopStep
    \/ /\ last_call'.name = "start_monitoring"
       /\ appended' = appended
       /\ \A t \in TaskIds : tasks'[t] # tasks[t] => tasks'[t] = "created"

\* the entries of a cycle are those of the comparison with the snapshot that
\* was the last of the history
DiffsAgainstLastStored ==
    (appended' = appended + 1 /\ metrics_history # <<>>) =>
        LET m == current_metrics'
            baseline == metrics_history[Len(metrics_history)]
        IN  \E new_order \in Orderings(NewIssues(m, baseline)),
               resolved_order \in Orderings(ResolvedIssues(m, baseline)) :
               emitted' = event_entries(m, <<baseline, m>>,
                                        new_order, resolved_order)

\* start_monitoring and stop_monitoring keep the buffers, and a second stop
\* changes nothing
StartStopFrame ==
    /\ StartOrStopStep =>
          UNCHANGED <<current_metrics, metrics_history, logs>>
    /\ StopStep => ~monitoring'
    /\ (StopStep /\ ~monitoring) =>
          UNCHANGED <<monitoring, current_metrics, metrics_history, logs,
                      tasks>>

(* C40 as stated: start_monitoring and stop_monitoring change only the     *)
(* running flag and keep the history, the log and the current snapshot;    *)
(* stop is idempotent; and after a stop and a start the first new cycle is *)
(* compared with the last snapshot stored before the stop: nothing is      *)
(* stored while the monitor is stopped.                                    *)
C40_RestartDiffsAgainstPreStop ==
    /\ [][StartStopFrame]_vars
    /\ [][DiffsAgainstLastStored]_vars
    /\ [][~monitoring => metrics_history' = metrics_history]_vars

(* C40 amended: start_monitoring and stop_monitoring keep the history, the *)
(* log and the current snapshot; stop is idempotent; and after a stop and  *)
(* a start the first new cycle, like every cycle, is compared with the     *)
(* snapshot that is then the last of the history: the last one stored      *)
(* before the stop, or the one stored after it by a cycle that was in      *)
(* flight.                                                                 *)
C40_RestartDiffsAgainstLastStored ==
    /\ [][StartStopFrame]_vars
    /\ [][DiffsAgainstLastStored]_vars

\* the monitor was stopped and started again while its first loop was alive:
\* the loops of both starts have run one cycle each, and the second of the
\* two snapshots was compared with the first
C40_Witness ==
    /\ monitoring
    /\ tasks[1] \in {"sleep 5", "sleep 10"}
    /\ tasks[2] \in {"sleep 5", "sleep 10"}
    /\ appended = 2
    /\ Len(metrics_history) = 2
    /\ emitted # <<>>
    /\ LogHasEmitted

====
